---- MODULE Spec2Model ----
(***************************************************************************)
(* Model of the SPMD decomposition and halo-exchange layer of              *)
(* samples/distributed/explicit/sc21_bench.py.                             *)
(*                                                                         *)
(*  Spec       the stencil kernels jacobi_1d_distr, jacobi_2d_distr and    *)
(*             heat_3d_distr run by all processes of a grid, with          *)
(*             non-blocking sends and receives, reliable delivery          *)
(*  SpecLossy  the same, but a message in flight may be lost               *)
(*  SpecDrv    one process of a kernel driver from the grid lookup to the  *)
(*             first kernel invocation                                     *)
(*                                                                         *)
(* Floating-point values are scaled to integers: an initial value x/N is   *)
(* kept as x, and a stencil c*(a+b+...) is kept as a+b+... (heat_3d is     *)
(* scaled by 8).                                                           *)
(***************************************************************************)
EXTENDS Integers, Sequences, FiniteSets, TLC

\* ------------------------------------------------------------------ bounds
\* largest total process count of a kernel run
MaxProcs == 4
\* local block length along the second grid axis (global N = LocalDim * Py)
LocalDim == 2
\* the TSTEPS argument of the stencil kernels (loop runs TSTEPS-1 times)
TSTEPS == 2

\* --------------------------------------------------------------- constants
\* MPI.PROC_NULL, the "no neighbor" rank; negative and different from rank-1
PROC_NULL == -2

\* the static process-count -> (Px, Py) table
grid ==
  (1 :> <<1, 1>>) @@ (2 :> <<1, 2>>) @@ (4 :> <<2, 2>>) @@ (8 :> <<2, 4>>) @@
  (16 :> <<4, 4>>) @@ (32 :> <<4, 8>>) @@ (64 :> <<8, 8>>) @@
  (128 :> <<8, 16>>) @@ (256 :> <<16, 16>>)

l2g(idx, pidx, bsize) == idx + pidx * bsize

StencilKernels == {"jacobi_1d", "jacobi_2d", "heat_3d"}

\* ---------------------------------------------------------------- topology
\* Coord with quotient and remainder exchanged
Coord_Swapped(rank, Py) == [pi |-> rank % Py, pj |-> rank \div Py]

\* rank -> (pi, pj) of the 2-D drivers
Coord(rank, Py) == [pi |-> rank \div Py, pj |-> rank % Py]

\* neighbor ranks and halo offsets computed by jacobi_1d
Topo1D(rank, size) ==
  LET nw0 == rank - 1
      ne0 == rank + 1
  IN  [nbr |-> [nw |-> IF rank = 0 THEN PROC_NULL ELSE nw0,
                ne |-> IF rank = size - 1 THEN PROC_NULL ELSE ne0],
       off |-> [woff |-> IF rank = 0 THEN 1 ELSE 0,
                eoff |-> IF rank = size - 1 THEN 1 ELSE 0]]

\* Topo2D with the row stride Px instead of Py
Topo2D_RowStridePx(rank, Px, Py) ==
  LET pi == Coord(rank, Py).pi
      pj == Coord(rank, Py).pj
  IN  [nbr |-> [nn |-> IF pi = 0 THEN PROC_NULL ELSE (pi - 1) * Px + pj,
                ns |-> IF pi = Px - 1 THEN PROC_NULL ELSE (pi + 1) * Px + pj,
                nw |-> IF pj = 0 THEN PROC_NULL ELSE pi * Px + (pj - 1),
                ne |-> IF pj = Py - 1 THEN PROC_NULL ELSE pi * Px + (pj + 1)],
       off |-> [noff |-> IF pi = 0 THEN 1 ELSE 0,
                soff |-> IF pi = Px - 1 THEN 1 ELSE 0,
                woff |-> IF pj = 0 THEN 1 ELSE 0,
                eoff |-> IF pj = Py - 1 THEN 1 ELSE 0]]

\* Topo2D without the test  if pj == Py - 1  for the east neighbor
Topo2D_NoEastEdge(rank, Px, Py) ==
  LET pi == Coord(rank, Py).pi
      pj == Coord(rank, Py).pj
  IN  [nbr |-> [nn |-> IF pi = 0 THEN PROC_NULL ELSE (pi - 1) * Py + pj,
                ns |-> IF pi = Px - 1 THEN PROC_NULL ELSE (pi + 1) * Py + pj,
                nw |-> IF pj = 0 THEN PROC_NULL ELSE pi * Py + (pj - 1),
                ne |-> pi * Py + (pj + 1)],
       off |-> [noff |-> IF pi = 0 THEN 1 ELSE 0,
                soff |-> IF pi = Px - 1 THEN 1 ELSE 0,
                woff |-> IF pj = 0 THEN 1 ELSE 0,
                eoff |-> 0]]

\* neighbor ranks and halo offsets computed by jacobi_2d and heat_3d
Topo2D(rank, Px, Py) ==
  LET pi == Coord(rank, Py).pi
      pj == Coord(rank, Py).pj
      nn0 == (pi - 1) * Py + pj
      ns0 == (pi + 1) * Py + pj
      nw0 == pi * Py + (pj - 1)
      ne0 == pi * Py + (pj + 1)
  IN  [nbr |-> [nn |-> IF pi = 0 THEN PROC_NULL ELSE nn0,
                ns |-> IF pi = Px - 1 THEN PROC_NULL ELSE ns0,
                nw |-> IF pj = 0 THEN PROC_NULL ELSE nw0,
                ne |-> IF pj = Py - 1 THEN PROC_NULL ELSE ne0],
       off |-> [noff |-> IF pi = 0 THEN 1 ELSE 0,
                soff |-> IF pi = Px - 1 THEN 1 ELSE 0,
                woff |-> IF pj = 0 THEN 1 ELSE 0,
                eoff |-> IF pj = Py - 1 THEN 1 ELSE 0]]

\* the grid a stencil driver works on (jacobi_1d: a line of `size` processes)
GridOf(k, size) == IF k = "jacobi_1d" THEN <<1, size>> ELSE grid[size]

Topo(k, rank, size) ==
  IF k = "jacobi_1d" THEN Topo1D(rank, size)
  ELSE Topo2D(rank, grid[size][1], grid[size][2])

\* ------------------------------------------------------------ local arrays
\* global problem size handed to the driver
GlobalN(k, size) == LocalDim * GridOf(k, size)[2]

\* shape of the padded local buffers A and B
Shape(k, size) ==
  LET N == GlobalN(k, size)
      lM == N \div GridOf(k, size)[1]
      lN == N \div GridOf(k, size)[2]
  IN  IF k = "jacobi_1d" THEN <<lN + 2>>
      ELSE IF k = "jacobi_2d" THEN <<lM + 2, lN + 2>>
      ELSE <<lM + 2, lN + 2, N>>

\* the distributed axes of a kernel's buffers
DistAxes(k) == IF k = "jacobi_1d" THEN {1} ELSE {1, 2}

\* a slice is one [start, stop) range per axis; Box is its set of cells
Box(sl) ==
  IF Len(sl) = 1 THEN {<<i>> : i \in sl[1].start .. sl[1].stop - 1}
  ELSE IF Len(sl) = 2
       THEN {<<i, j>> : i \in sl[1].start .. sl[1].stop - 1,
                        j \in sl[2].start .. sl[2].stop - 1}
       ELSE {<<i, j, m>> : i \in sl[1].start .. sl[1].stop - 1,
                           j \in sl[2].start .. sl[2].stop - 1,
                           m \in sl[3].start .. sl[3].stop - 1}

Cells(sh) == Box([a \in 1 .. Len(sh) |-> [start |-> 0, stop |-> sh[a]]])

\* the slice  lo : -hi  of an axis of length len in a dace program: the
\* offsets are symbols declared nonnegative, and a bound  -hi  with hi >= 0
\* is hi elements before the end of the axis, also when hi is 0
Rng(lo, hi, len) == [start |-> lo, stop |-> len - hi]

\* a single index (negative counts from the end) as a range
At(idx, len) ==
  LET i == IF idx < 0 THEN len + idx ELSE idx IN [start |-> i, stop |-> i + 1]

\* scaled initial interior value of buffer X at local interior index c
InitValue(k, X, c, pi, pj, sh) ==
  LET lM == sh[1] - 2
      lN == IF k = "jacobi_1d" THEN sh[1] - 2 ELSE sh[2] - 2
      plus == IF X = "A" THEN 2 ELSE 3
  IN  IF k = "jacobi_1d" THEN l2g(c[1] - 1, pj, lN) + plus
      ELSE IF k = "jacobi_2d"
           THEN l2g(c[1] - 1, pi, lM) * (l2g(c[2] - 1, pj, lN) + plus)
           ELSE (l2g(c[1] - 1, pi, lM) + l2g(c[2] - 1, pj, lN)
                 + (sh[3] - c[3])) * 10

\* the interior (unpadded) cells:  [1:-1]  on every distributed axis
Interior(k, sh) ==
  Box([a \in 1 .. Len(sh) |->
         IF a \in DistAxes(k) THEN Rng(1, 1, sh[a]) ELSE Rng(0, 0, sh[a])])

\* *_distr_init: zero buffers whose interior holds the generating function
DistrInit(k, rank, size) ==
  LET sh == Shape(k, size)
      pi == IF k = "jacobi_1d" THEN 0 ELSE Coord(rank, GridOf(k, size)[2]).pi
      pj == IF k = "jacobi_1d" THEN rank
            ELSE Coord(rank, GridOf(k, size)[2]).pj
  IN  [X \in {"A", "B"} |->
         [c \in Cells(sh) |->
            IF c \in Interior(k, sh) THEN InitValue(k, X, c, pi, pj, sh)
            ELSE 0]]

\* ------------------------------------------------------- kernel programs
\* selector of one axis: a single index, or the slice  lo+loff : -hi-hoff
\* where loff and hoff name a halo offset symbol (or "none")
I(idx) == [t |-> "at", idx |-> idx]
S(lo, loff, hi, hoff) == [t |-> "rng", lo |-> lo, loff |-> loff, hi |-> hi, hoff |-> hoff]
Mid == S(1, "none", 1, "none")

Isend(X, sel, peer, tag, slot) ==
  [op |-> "Isend", buf |-> X, sel |-> sel, peer |-> peer, tag |-> tag, slot |-> slot]
Irecv(X, sel, peer, tag, slot) ==
  [op |-> "Irecv", buf |-> X, sel |-> sel, peer |-> peer, tag |-> tag, slot |-> slot]
Waitall == [op |-> "Waitall"]
Term(coef, sel) == [coef |-> coef, sel |-> sel]
Compute(dst, src, sel, terms) ==
  [op |-> "Compute", dst |-> dst, src |-> src, sel |-> sel, terms |-> terms]

\* Exchange1D sending the ghost cells instead of the outermost interior cells
Exchange1D_SendsGhost(X) ==
  << Isend(X, <<I(0)>>, "nw", 3, 0),
     Isend(X, <<I(-1)>>, "ne", 2, 1),
     Irecv(X, <<I(0)>>, "nw", 2, 2),
     Irecv(X, <<I(-1)>>, "ne", 3, 3),
     Waitall >>

\* one exchange round of jacobi_1d_distr on buffer X
Exchange1D(X) ==
  << Isend(X, <<I(1)>>, "nw", 3, 0),
     Isend(X, <<I(-2)>>, "ne", 2, 1),
     Irecv(X, <<I(0)>>, "nw", 2, 2),
     Irecv(X, <<I(-1)>>, "ne", 3, 3),
     Waitall >>

\* Stencil1D without the halo offsets
Stencil1D_NoOffsets(X, Y) ==
  Compute(X, Y, <<S(1, "none", 1, "none")>>,
          << Term(1, <<S(0, "none", 2, "none")>>),
             Term(1, <<S(1, "none", 1, "none")>>),
             Term(1, <<S(2, "none", 0, "none")>>) >>)

\* X[1+woff:-1-eoff] = Y[woff:-2-eoff] + Y[1+woff:-1-eoff] + Y[2+woff:-eoff]
Stencil1D(X, Y) ==
  Compute(X, Y, <<S(1, "woff", 1, "eoff")>>,
          << Term(1, <<S(0, "woff", 2, "eoff")>>),
             Term(1, <<S(1, "woff", 1, "eoff")>>),
             Term(1, <<S(2, "woff", 0, "eoff")>>) >>)

\* Exchange2D whose receives use the tag of their own direction
Exchange2D_OwnTags(X) ==
  << Isend(X, <<I(1), Mid>>, "nn", 0, 0),
     Isend(X, <<I(-2), Mid>>, "ns", 1, 1),
     Isend(X, <<Mid, I(1)>>, "nw", 2, 2),
     Isend(X, <<Mid, I(-2)>>, "ne", 3, 3),
     Irecv(X, <<I(0), Mid>>, "nn", 0, 4),
     Irecv(X, <<I(-1), Mid>>, "ns", 1, 5),
     Irecv(X, <<Mid, I(0)>>, "nw", 2, 6),
     Irecv(X, <<Mid, I(-1)>>, "ne", 3, 7),
     Waitall >>

\* Exchange2D without the Waitall
Exchange2D_NoWait(X) ==
  << Isend(X, <<I(1), Mid>>, "nn", 0, 0),
     Isend(X, <<I(-2), Mid>>, "ns", 1, 1),
     Isend(X, <<Mid, I(1)>>, "nw", 2, 2),
     Isend(X, <<Mid, I(-2)>>, "ne", 3, 3),
     Irecv(X, <<I(0), Mid>>, "nn", 1, 4),
     Irecv(X, <<I(-1), Mid>>, "ns", 0, 5),
     Irecv(X, <<Mid, I(0)>>, "nw", 3, 6),
     Irecv(X, <<Mid, I(-1)>>, "ne", 2, 7) >>

\* Exchange2D that waits for its receives before it posts its sends
Exchange2D_WaitBeforeSend(X) ==
  << Irecv(X, <<I(0), Mid>>, "nn", 1, 4),
     Irecv(X, <<I(-1), Mid>>, "ns", 0, 5),
     Irecv(X, <<Mid, I(0)>>, "nw", 3, 6),
     Irecv(X, <<Mid, I(-1)>>, "ne", 2, 7),
     Waitall,
     Isend(X, <<I(1), Mid>>, "nn", 0, 0),
     Isend(X, <<I(-2), Mid>>, "ns", 1, 1),
     Isend(X, <<Mid, I(1)>>, "nw", 2, 2),
     Isend(X, <<Mid, I(-2)>>, "ne", 3, 3),
     Waitall >>

\* one exchange round of jacobi_2d_distr / heat_3d_distr on buffer X
Exchange2D(X) ==
  << Isend(X, <<I(1), Mid>>, "nn", 0, 0),
     Isend(X, <<I(-2), Mid>>, "ns", 1, 1),
     Isend(X, <<Mid, I(1)>>, "nw", 2, 2),
     Isend(X, <<Mid, I(-2)>>, "ne", 3, 3),
     Irecv(X, <<I(0), Mid>>, "nn", 1, 4),
     Irecv(X, <<I(-1), Mid>>, "ns", 0, 5),
     Irecv(X, <<Mid, I(0)>>, "nw", 3, 6),
     Irecv(X, <<Mid, I(-1)>>, "ne", 2, 7),
     Waitall >>

RowC == S(1, "noff", 1, "soff")
ColC == S(1, "woff", 1, "eoff")

\* Stencil2D without the halo offsets
Stencil2D_NoOffsets(X, Y) ==
  Compute(X, Y, <<Mid, Mid>>,
          << Term(1, <<Mid, Mid>>),
             Term(1, <<Mid, S(0, "none", 2, "none")>>),
             Term(1, <<Mid, S(2, "none", 0, "none")>>),
             Term(1, <<S(2, "none", 0, "none"), Mid>>),
             Term(1, <<S(0, "none", 2, "none"), Mid>>) >>)

Stencil2D(X, Y) ==
  Compute(X, Y, <<RowC, ColC>>,
          << Term(1, <<RowC, ColC>>),
             Term(1, <<RowC, S(0, "woff", 2, "eoff")>>),
             Term(1, <<RowC, S(2, "woff", 0, "eoff")>>),
             Term(1, <<S(2, "noff", 0, "soff"), ColC>>),
             Term(1, <<S(0, "noff", 2, "soff"), ColC>>) >>)

\* Stencil3D without the halo offsets
Stencil3D_NoOffsets(X, Y) ==
  Compute(X, Y, <<Mid, Mid, Mid>>,
          << Term(1, <<S(2, "none", 0, "none"), Mid, Mid>>),
             Term(-2, <<Mid, Mid, Mid>>),
             Term(1, <<S(0, "none", 2, "none"), Mid, Mid>>),
             Term(1, <<Mid, S(2, "none", 0, "none"), Mid>>),
             Term(-2, <<Mid, Mid, Mid>>),
             Term(1, <<Mid, S(0, "none", 2, "none"), Mid>>),
             Term(1, <<Mid, Mid, S(2, "none", 0, "none")>>),
             Term(-2, <<Mid, Mid, Mid>>),
             Term(1, <<Mid, Mid, S(0, "none", 2, "none")>>),
             Term(8, <<Mid, Mid, Mid>>) >>)

Stencil3D(X, Y) ==
  Compute(X, Y, <<RowC, ColC, Mid>>,
          << Term(1, <<S(2, "noff", 0, "soff"), ColC, Mid>>),
             Term(-2, <<RowC, ColC, Mid>>),
             Term(1, <<S(0, "noff", 2, "soff"), ColC, Mid>>),
             Term(1, <<RowC, S(2, "woff", 0, "eoff"), Mid>>),
             Term(-2, <<RowC, ColC, Mid>>),
             Term(1, <<RowC, S(0, "woff", 2, "eoff"), Mid>>),
             Term(1, <<RowC, ColC, S(2, "none", 0, "none")>>),
             Term(-2, <<RowC, ColC, Mid>>),
             Term(1, <<RowC, ColC, S(0, "none", 2, "none")>>),
             Term(8, <<RowC, ColC, Mid>>) >>)

\* the body of the  for t in range(1, TSTEPS)  loop of each kernel
Prog1D ==
  Exchange1D("A") \o <<Stencil1D("B", "A")>> \o
  Exchange1D("B") \o <<Stencil1D("A", "B")>>

Prog2D ==
  Exchange2D("A") \o <<Stencil2D("B", "A")>> \o
  Exchange2D("B") \o <<Stencil2D("A", "B")>>

Prog3D ==
  Exchange2D("A") \o <<Stencil3D("B", "A")>> \o
  Exchange2D("B") \o <<Stencil3D("A", "B")>>

Prog(k) ==
  IF k = "jacobi_1d" THEN Prog1D ELSE IF k = "jacobi_2d" THEN Prog2D ELSE Prog3D

\* size of the request array  req = np.empty((4,)) / np.empty((8,))
NReq(k) == IF k = "jacobi_1d" THEN 4 ELSE 8

OffVal(off, name) == IF name = "none" THEN 0 ELSE off[name]

\* a slice bound as NumPy reads an integer: negative counts from the end,
\* and the result is clipped to the axis
PyBound(b, len) ==
  IF b < 0 THEN (IF len + b < 0 THEN 0 ELSE len + b)
  ELSE (IF b > len THEN len ELSE b)

\* SliceOf with the bounds evaluated to integers first and then sliced as
\* NumPy does: the upper bound  -eoff  with eoff = 0 is the index 0; a bound
\* that is left out is the end of the axis
SliceOf_Py(sel, off, sh) ==
  [a \in 1 .. Len(sh) |->
     IF a > Len(sel) THEN Rng(0, 0, sh[a])
     ELSE IF sel[a].t = "at" THEN At(sel[a].idx, sh[a])
          ELSE [start |-> PyBound(sel[a].lo + OffVal(off, sel[a].loff), sh[a]),
                stop |-> IF sel[a].hi = 0 /\ sel[a].hoff = "none" THEN sh[a]
                         ELSE PyBound(0 - (sel[a].hi + OffVal(off, sel[a].hoff)),
                                      sh[a])]]

\* the cells a selector denotes in a buffer of shape sh (trailing axes full)
SliceOf(sel, off, sh) ==
  [a \in 1 .. Len(sh) |->
     IF a > Len(sel) THEN Rng(0, 0, sh[a])
     ELSE IF sel[a].t = "at" THEN At(sel[a].idx, sh[a])
          ELSE Rng(sel[a].lo + OffVal(off, sel[a].loff),
                   sel[a].hi + OffVal(off, sel[a].hoff), sh[a])]

\* position of cell c inside slice sl
Rel(c, sl) == [a \in 1 .. Len(c) |-> c[a] - sl[a].start]

\* contents of a slice, indexed by position
Payload(b, sl) ==
  [r \in {Rel(c, sl) : c \in Box(sl)} |->
     b[[a \in 1 .. Len(sl) |-> r[a] + sl[a].start]]]

\* buffer b with slice sl overwritten by payload d
Store(b, sl, d) ==
  [c \in DOMAIN b |-> IF c \in Box(sl) THEN d[Rel(c, sl)] ELSE b[c]]

RECURSIVE SumTerms(_, _, _, _, _)
SumTerms(terms, n, b, lo, r) ==
  IF n = 0 THEN 0
  ELSE terms[n].coef * b[[a \in 1 .. Len(r) |-> r[a] + lo[n][a]]]
       + SumTerms(terms, n - 1, b, lo, r)

\* the destination buffer after a stencil statement: element r of the written
\* slice becomes the sum of coef * (element r of the operand slice)
Stencil(st, bufs, off, sh) ==
  LET W == SliceOf(st.sel, off, sh)
      lo == [n \in 1 .. Len(st.terms) |->
               [a \in 1 .. Len(sh) |-> SliceOf(st.terms[n].sel, off, sh)[a].start]]
      box == Box(W)
  IN  [c \in DOMAIN bufs[st.dst] |->
         IF c \in box
         THEN SumTerms(st.terms, Len(st.terms), bufs[st.src], lo, Rel(c, W))
         ELSE bufs[st.dst][c]]

\* the cells of the source buffer a stencil statement reads
ReadCells(st, off, sh) ==
  UNION {Box(SliceOf(st.terms[n].sel, off, sh)) : n \in 1 .. Len(st.terms)}

\* ------------------------------------------------------------------ state
VARIABLES
  kernel,   \* the stencil kernel all processes run
  size,     \* comm.Get_size()
  nbr,      \* nbr[p]: the neighbor ranks nn, ns, nw, ne handed to the kernel
  off,      \* off[p]: the halo offsets noff, soff, woff, eoff
  buf,      \* buf[p].A, buf[p].B: the padded local buffers
  pc,       \* pc[p]: "entry", "run", "barrier" (kernel returned), "after"
  ip,       \* ip[p]: index in Prog(kernel) of the next statement
  t,        \* t[p]: the loop variable of  for t in range(1, TSTEPS)
  req,      \* req[p][slot]: the MPI_Request array
  chan,     \* chan[<<src, dst, tag>>]: messages sent and not yet received
  waits,    \* history: number of Waitall calls that returned on p
  posts,    \* history: number of exchange rounds p has posted
  wbuf,     \* history: the buffers named by the requests p waited for last
  posted,   \* history: the sends p posted to existing neighbors, each with
            \*   the interior layer facing the neighbor as it was at the call
  matched,  \* history: which send each completed receive was matched with
  lost      \* history: the messages the network dropped

hvars == <<kernel, size, nbr, off, buf, pc, ip, t, req, chan,
           waits, posts, wbuf, posted, matched, lost>>

Ranks == 0 .. size - 1
Tags == 0 .. 3
Slots == 0 .. NReq(kernel) - 1
NullReq == [st |-> "null", at |-> 0]

\* process counts a stencil driver can be started with
Sizes(k) == DOMAIN grid \cap (1 .. MaxProcs)

HaloInit ==
  \E k \in StencilKernels : \E n \in Sizes(k) :
    /\ kernel = k
    /\ size = n
    /\ nbr = [p \in 0 .. n - 1 |-> Topo(k, p, n).nbr]
    /\ off = [p \in 0 .. n - 1 |-> Topo(k, p, n).off]
    /\ buf = [p \in 0 .. n - 1 |-> DistrInit(k, p, n)]
    /\ pc = [p \in 0 .. n - 1 |-> "entry"]
    /\ ip = [p \in 0 .. n - 1 |-> 1]
    /\ t = [p \in 0 .. n - 1 |-> 1]
    /\ req = [p \in 0 .. n - 1 |-> [s \in 0 .. NReq(k) - 1 |-> NullReq]]
    /\ chan = [key \in (0 .. n - 1) \X (0 .. n - 1) \X Tags |-> <<>>]
    /\ waits = [p \in 0 .. n - 1 |-> 0]
    /\ posts = [p \in 0 .. n - 1 |-> 0]
    /\ wbuf = [p \in 0 .. n - 1 |-> {}]
    /\ posted = [p \in 0 .. n - 1 |-> <<>>]
    /\ matched = {}
    /\ lost = {}

Sh == Shape(kernel, size)
Stmt(p) == Prog(kernel)[ip[p]]

\* mpi_func(...) is called: the loop  for t in range(1, TSTEPS)  is entered
Enter(p) ==
  /\ pc[p] = "entry"
  /\ pc' = [pc EXCEPT ![p] = IF 1 < TSTEPS THEN "run" ELSE "barrier"]
  /\ UNCHANGED <<kernel, size, nbr, off, buf, ip, t, req, chan,
                 waits, posts, wbuf, posted, matched, lost>>

\* geometry used by the history variables and the halo properties
Dirs(k) == IF k = "jacobi_1d" THEN {"nw", "ne"} ELSE {"nn", "ns", "nw", "ne"}
Opp(d) == IF d = "nn" THEN "ns" ELSE IF d = "ns" THEN "nn"
          ELSE IF d = "nw" THEN "ne" ELSE "nw"

\* the ghost layer on side d, and the interior layer next to side d
GhostSel(k, d) ==
  IF k = "jacobi_1d" THEN (IF d = "nw" THEN <<I(0)>> ELSE <<I(-1)>>)
  ELSE IF d = "nn" THEN <<I(0), Mid>> ELSE IF d = "ns" THEN <<I(-1), Mid>>
  ELSE IF d = "nw" THEN <<Mid, I(0)>> ELSE <<Mid, I(-1)>>
EdgeSel(k, d) ==
  IF k = "jacobi_1d" THEN (IF d = "nw" THEN <<I(1)>> ELSE <<I(-2)>>)
  ELSE IF d = "nn" THEN <<I(1), Mid>> ELSE IF d = "ns" THEN <<I(-2), Mid>>
  ELSE IF d = "nw" THEN <<Mid, I(1)>> ELSE <<Mid, I(-2)>>

\* index of the first blocking statement (Waitall) at or after i
RECURSIVE NextWait(_, _)
NextWait(prog, i) ==
  IF i > Len(prog) \/ prog[i].op \notin {"Isend", "Irecv"} THEN i
  ELSE NextWait(prog, i + 1)

\* one dc.comm.Isend / dc.comm.Irecv call of process p: statement st at index i.
\* The call fills its request slot and returns.  A transfer with
\* MPI.PROC_NULL completes at once and moves no data; a send to an existing
\* neighbor is buffered by the library (its buffer is read at the call) and
\* is complete; a receive stays pending until a matching message arrives.
PostOne(p, st, i, h) ==
  LET peer == nbr[p][st.peer]
      real == peer # PROC_NULL
      msg == [data |-> Payload(buf[p][st.buf], SliceOf(st.sel, off[p], Shape(kernel, size))),
              rnd |-> waits[p] + 1, buf |-> st.buf]
  IN  [req |-> [h.req EXCEPT ![st.slot] =
                  [st |-> IF st.op = "Irecv" /\ real THEN "pending" ELSE "done",
                   at |-> i]],
       chan |-> IF st.op = "Isend" /\ real
                THEN [h.chan EXCEPT ![<<p, peer, st.tag>>] = Append(@, msg)]
                ELSE h.chan,
       posted |-> IF st.op = "Isend" /\ real
                  THEN Append(h.posted,
                         [rnd |-> waits[p] + 1, dst |-> peer, tag |-> st.tag,
                          buf |-> st.buf,
                          edge |-> Payload(buf[p][st.buf],
                                     SliceOf(EdgeSel(kernel, st.peer), off[p],
                                             Shape(kernel, size)))])
                  ELSE h.posted]

\* statements i .. j-1 executed in program order
RECURSIVE PostAll(_, _, _, _, _)
PostAll(p, prog, i, j, h) ==
  IF i >= j THEN h
  ELSE PostAll(p, prog, i + 1, j, PostOne(p, prog[i], i, h))

\* the non-blocking calls of one exchange round, up to the Waitall
\* (PostCtl is the part of the step that concerns the control position)
PostCtl(p) ==
  /\ pc[p] = "run"
  /\ Stmt(p).op \in {"Isend", "Irecv"}
  /\ ip' = [ip EXCEPT ![p] = NextWait(Prog(kernel), ip[p])]
  /\ UNCHANGED <<pc, t>>

Post(p) ==
  /\ PostCtl(p)
  /\ LET j == NextWait(Prog(kernel), ip[p])
         h == PostAll(p, Prog(kernel), ip[p], j,
                      [req |-> req[p], chan |-> chan, posted |-> posted[p]])
     IN  /\ req' = [req EXCEPT ![p] = h.req]
         /\ chan' = h.chan
         /\ posted' = [posted EXCEPT ![p] = h.posted]
  /\ posts' = [posts EXCEPT ![p] = @ + 1]
  /\ UNCHANGED <<kernel, size, nbr, off, buf, waits, wbuf, matched, lost>>

\* the oldest message with the source and tag of a pending Irecv is written
\* into its receive buffer; the receive request is complete
\* (DeliverCtl is the part of the step that concerns the request array)
DeliverCtl(q, s) ==
  /\ req[q][s].st = "pending"
  /\ Prog(kernel)[req[q][s].at].op = "Irecv"
  /\ LET st == Prog(kernel)[req[q][s].at]
     IN  chan[<<nbr[q][st.peer], q, st.tag>>] # <<>>
  /\ req' = [req EXCEPT ![q][s].st = "done"]

\* Deliver taking the newest message of the channel instead of the oldest
Deliver_Newest(q, s) ==
  /\ DeliverCtl(q, s)
  /\ LET st == Prog(kernel)[req[q][s].at]
         key == <<nbr[q][st.peer], q, st.tag>>
         m == chan[key][Len(chan[key])]
     IN  /\ buf' = [buf EXCEPT ![q][st.buf] =
                      Store(@, SliceOf(st.sel, off[q], Sh), m.data)]
         /\ chan' = [chan EXCEPT ![key] = SubSeq(@, 1, Len(@) - 1)]
         /\ matched' = matched \cup
              {[dst |-> q, side |-> st.peer, rrnd |-> waits[q] + 1, rbuf |-> st.buf,
                src |-> key[1], tag |-> st.tag, srnd |-> m.rnd, sbuf |-> m.buf]}
  /\ UNCHANGED <<kernel, size, nbr, off, pc, ip, t, waits, posts, wbuf, posted, lost>>

Deliver(q, s) ==
  /\ DeliverCtl(q, s)
  /\ LET st == Prog(kernel)[req[q][s].at]
         key == <<nbr[q][st.peer], q, st.tag>>
     IN  /\ buf' = [buf EXCEPT ![q][st.buf] =
                      Store(@, SliceOf(st.sel, off[q], Sh), Head(chan[key]).data)]
         /\ chan' = [chan EXCEPT ![key] = Tail(@)]
         /\ matched' = matched \cup
              {[dst |-> q, side |-> st.peer, rrnd |-> waits[q] + 1, rbuf |-> st.buf,
                src |-> key[1], tag |-> st.tag,
                srnd |-> Head(chan[key]).rnd, sbuf |-> Head(chan[key]).buf]}
  /\ UNCHANGED <<kernel, size, nbr, off, pc, ip, t, waits, posts, wbuf, posted, lost>>

\* a Waitall that waits for the sends only and leaves pending receives behind
WaitallReturn_SendsOnly(p) ==
  /\ pc[p] = "run"
  /\ Stmt(p).op = "Waitall"
  /\ req' = [req EXCEPT ![p] =
               [s \in Slots |-> IF req[p][s].st = "pending" THEN req[p][s] ELSE NullReq]]
  /\ waits' = [waits EXCEPT ![p] = @ + 1]
  /\ wbuf' = [wbuf EXCEPT ![p] =
                {Prog(kernel)[req[p][s].at].buf : s \in {s2 \in Slots : req[p][s2].st # "null"}}]
  /\ ip' = [ip EXCEPT ![p] = @ + 1]
  /\ UNCHANGED <<kernel, size, nbr, off, buf, pc, t, chan, posts, posted, matched, lost>>

\* a Waitall that gives up: it returns and cancels what is still pending
WaitallReturn_Timeout(p) ==
  /\ pc[p] = "run"
  /\ Stmt(p).op = "Waitall"
  /\ req' = [req EXCEPT ![p] = [s \in Slots |-> NullReq]]
  /\ waits' = [waits EXCEPT ![p] = @ + 1]
  /\ wbuf' = [wbuf EXCEPT ![p] =
                {Prog(kernel)[req[p][s].at].buf : s \in {s2 \in Slots : req[p][s2].st # "null"}}]
  /\ ip' = [ip EXCEPT ![p] = @ + 1]
  /\ UNCHANGED <<kernel, size, nbr, off, buf, pc, t, chan, posts, posted, matched, lost>>

\* a Waitall that returns as soon as one request is complete, like Waitany
WaitallReturn_Waitany(p) ==
  /\ pc[p] = "run"
  /\ Stmt(p).op = "Waitall"
  /\ \E s \in Slots : req[p][s].st = "done"
  /\ req' = [req EXCEPT ![p] = [s \in Slots |-> NullReq]]
  /\ waits' = [waits EXCEPT ![p] = @ + 1]
  /\ wbuf' = [wbuf EXCEPT ![p] =
                {Prog(kernel)[req[p][s].at].buf : s \in {s2 \in Slots : req[p][s2].st # "null"}}]
  /\ ip' = [ip EXCEPT ![p] = @ + 1]
  /\ UNCHANGED <<kernel, size, nbr, off, buf, pc, t, chan, posts, posted, matched, lost>>

\* dc.comm.Waitall(req) returns once every request of the array is complete
WaitallReturn(p) ==
  /\ pc[p] = "run"
  /\ Stmt(p).op = "Waitall"
  /\ \A s \in Slots : req[p][s].st \in {"done", "null"}
  /\ req' = [req EXCEPT ![p] = [s \in Slots |-> NullReq]]
  /\ waits' = [waits EXCEPT ![p] = @ + 1]
  /\ wbuf' = [wbuf EXCEPT ![p] =
                {Prog(kernel)[req[p][s].at].buf : s \in {s2 \in Slots : req[p][s2].st # "null"}}]
  /\ ip' = [ip EXCEPT ![p] = @ + 1]
  /\ UNCHANGED <<kernel, size, nbr, off, buf, pc, t, chan, posts, posted, matched, lost>>

\* a stencil assignment; after the last statement of the body the loop
\* variable advances and the kernel returns when the range is exhausted
\* (ComputeCtl is the part of the step that concerns the control position)
ComputeCtl(p) ==
  /\ pc[p] = "run"
  /\ Stmt(p).op = "Compute"
  /\ IF ip[p] < Len(Prog(kernel))
     THEN /\ ip' = [ip EXCEPT ![p] = @ + 1]
          /\ UNCHANGED <<pc, t>>
     ELSE /\ ip' = [ip EXCEPT ![p] = 1]
          /\ t' = [t EXCEPT ![p] = @ + 1]
          /\ pc' = [pc EXCEPT ![p] = IF t[p] + 1 < TSTEPS THEN "run" ELSE "barrier"]

ComputeStep(p) ==
  /\ ComputeCtl(p)
  /\ buf' = [buf EXCEPT ![p][Stmt(p).dst] = Stencil(Stmt(p), buf[p], off[p], Sh)]
  /\ UNCHANGED <<kernel, size, nbr, off, req, chan, waits, posts, wbuf, posted, matched, lost>>

\* comm.Barrier() after the kernel call: released when all processes are in it
BarrierRelease ==
  /\ \A p \in Ranks : pc[p] = "barrier"
  /\ pc' = [p \in Ranks |-> "after"]
  /\ UNCHANGED <<kernel, size, nbr, off, buf, ip, t, req, chan,
                 waits, posts, wbuf, posted, matched, lost>>

\* the network drops the i-th message in flight on a channel; the fault
\* considered is the loss of a single message in a run
Lose(key, i) ==
  /\ lost = {}
  /\ i \in 1 .. Len(chan[key])
  /\ chan' = [chan EXCEPT ![key] =
                SubSeq(@, 1, i - 1) \o SubSeq(@, i + 1, Len(@))]
  /\ lost' = lost \cup {[src |-> key[1], dst |-> key[2], tag |-> key[3],
                         rnd |-> chan[key][i].rnd]}
  /\ UNCHANGED <<kernel, size, nbr, off, buf, pc, ip, t, req, waits, posts, wbuf, posted, matched>>

HaloNext ==
  \/ \E p \in Ranks : Enter(p)
  \/ \E p \in Ranks : Post(p)
  \/ \E p \in Ranks : \E s \in Slots : Deliver(p, s)
  \/ \E p \in Ranks : WaitallReturn(p)
  \/ \E p \in Ranks : ComputeStep(p)
  \/ BarrierRelease

LossyNext ==
  \/ HaloNext
  \/ \E key \in DOMAIN chan : \E i \in 1 .. Len(chan[key]) : Lose(key, i)

\* what the driver variables hold while only the kernels are modelled
HaloIdle ==
  /\ kernel = "none" /\ size = 0
  /\ nbr = <<>> /\ off = <<>> /\ buf = <<>> /\ pc = <<>> /\ ip = <<>> /\ t = <<>>
  /\ req = <<>> /\ chan = <<>> /\ waits = <<>> /\ posts = <<>> /\ wbuf = <<>>
  /\ posted = <<>> /\ matched = {} /\ lost = {}

\* ---------------------------------------------------------------- drivers
\* the problem sizes  __main__  passes to each driver
atax_sizes == << <<1800, 2200>>, <<3600, 4400>>, <<7200, 8800>>, <<14400, 17600>> >>
bicg_sizes == << <<2200, 1800>>, <<4400, 3600>>, <<7200, 8800>> >>
doitgen_sizes == << <<256, 250, 270>>, <<512, 500, 540>> >>
gemm_sizes == << <<2000, 2300, 2600>>, <<4000, 4600, 5200>> >>
gemver_sizes == << <<4000>>, <<8000>> >>
gesummv_sizes == << <<2800>>, <<5600>>, <<11200>> >>
k2mm_sizes == << <<1600, 1800, 2200, 2400>>, <<3200, 3600, 4400, 4800>> >>
k3mm_sizes == << <<1600, 1800, 2000, 2200, 2400>>, <<3200, 3600, 4000, 4400, 4800>> >>
mvt_sizes == << <<4000>>, <<8000>>, <<16000>> >>
jacobi_1d_sizes == << <<1000, 4000>>, <<2000, 8000>>, <<4000, 16000>> >>
jacobi_2d_sizes == << <<10, 2800>>, <<10, 5600>>, <<10, 11200>> >>
heat_3d_sizes == << <<10, 200>>, <<10, 300>>, <<10, 450>> >>

Drivers == {"atax", "bicg", "doitgen", "gemm", "gemver", "gesummv", "k2mm",
            "k3mm", "mvt", "jacobi_1d", "jacobi_2d", "heat_3d"}
\* drivers that look the process count up in the grid table
GridDrivers == Drivers \ {"doitgen", "jacobi_1d"}
\* drivers that swap a non-square grid ("Tmp fix for gemm and non-square grids")
SwapDrivers == {"gemm", "k2mm", "k3mm"}

SizesOf(d) ==
  CASE d = "atax" -> atax_sizes [] d = "bicg" -> bicg_sizes
    [] d = "doitgen" -> doitgen_sizes [] d = "gemm" -> gemm_sizes
    [] d = "gemver" -> gemver_sizes [] d = "gesummv" -> gesummv_sizes
    [] d = "k2mm" -> k2mm_sizes [] d = "k3mm" -> k3mm_sizes
    [] d = "mvt" -> mvt_sizes [] d = "jacobi_1d" -> jacobi_1d_sizes
    [] d = "jacobi_2d" -> jacobi_2d_sizes [] d = "heat_3d" -> heat_3d_sizes

\* GridPair without the swap
GridPair_NoSwap(d, n) == grid[n]

\* Px, Py = grid[size], swapped by gemm, k2mm and k3mm when Px < Py
GridPair(d, n) ==
  IF d \in SwapDrivers /\ grid[n][1] < grid[n][2]
  THEN <<grid[n][2], grid[n][1]>> ELSE grid[n]

\* one local size:  name = glob // by
LDim(name, glob, by) == [name |-> name, glob |-> glob, by |-> by, val |-> glob \div by]

\* the "Symbolic sizes" block of each driver
LocalSizes(d, sz, Px, Py, n) ==
  CASE d \in {"atax", "bicg"} ->
         << LDim("lM", sz[1], Px), LDim("lN", sz[2], Py),
            LDim("lNx", sz[2], Py), LDim("lMy", sz[1], Py) >>
    [] d = "doitgen" -> << LDim("lR", sz[1], n) >>
    [] d = "gemm" ->
         << LDim("lNI", sz[1], Px), LDim("lNJ", sz[2], Py),
            LDim("lNKa", sz[3], Py), LDim("lNKb", sz[3], Px) >>
    [] d \in {"gemver", "gesummv", "mvt"} ->
         << LDim("lM", sz[1], Px), LDim("lN", sz[1], Py), LDim("lMy", sz[1], Py) >>
    [] d = "k2mm" ->
         << LDim("lNI", sz[1], Px), LDim("lNJ", sz[2], Py), LDim("lNJx", sz[2], Px),
            LDim("lNKa", sz[3], Py), LDim("lNKb", sz[3], Px), LDim("lNL", sz[4], Py) >>
    [] d = "k3mm" ->
         << LDim("lNI", sz[1], Px), LDim("lNJ", sz[2], Py), LDim("lNJx", sz[2], Px),
            LDim("lNKa", sz[3], Py), LDim("lNKb", sz[3], Px), LDim("lNL", sz[4], Py),
            LDim("lNMx", sz[5], Px), LDim("lNMy", sz[5], Py) >>
    [] d = "jacobi_1d" -> << LDim("lR", sz[2], n) >>
    [] d \in {"jacobi_2d", "heat_3d"} ->
         << LDim("lM", sz[2], Px), LDim("lN", sz[2], Py) >>

VARIABLES
  drv,     \* the driver function that runs
  dsize,   \* comm.Get_size()
  drank,   \* comm.Get_rank()
  dsz,     \* the sizes argument
  dpc,     \* "start", "grid", "sizes", "init", "bar1", "bar2", "invoked", "failed"
  dgrid,   \* <<Px, Py>>
  dco,     \* the coordinate [pi, pj]
  dtopo,   \* stencil drivers: the neighbor ranks and halo offsets
  dloc,    \* the local sizes
  dalloc,  \* the local buffers have been allocated and initialized
  derr     \* the exception that ended the driver, or "none"

dvars == <<drv, dsize, drank, dsz, dpc, dgrid, dco, dtopo, dloc, dalloc, derr>>

\* largest index into a driver's size list that is tried
MaxSizeIdx == 1
\* process counts outside the grid table that are tried as well
OtherCounts == {3}

DrvIdle ==
  /\ drv = "none" /\ dsize = 0 /\ drank = 0 /\ dsz = <<>> /\ dpc = "none"
  /\ dgrid = <<>> /\ dco = <<>> /\ dtopo = <<>> /\ dloc = <<>>
  /\ dalloc = FALSE /\ derr = "none"

DrvInit ==
  \E d \in Drivers : \E n \in DOMAIN grid \cup OtherCounts : \E r \in 0 .. n - 1 :
    \E i \in 1 .. MaxSizeIdx :
      /\ i <= Len(SizesOf(d))
      /\ drv = d /\ dsize = n /\ drank = r /\ dsz = SizesOf(d)[i]
      /\ dpc = "start"
      /\ dgrid = <<>> /\ dco = <<>> /\ dtopo = <<>> /\ dloc = <<>>
      /\ dalloc = FALSE /\ derr = "none"

\* "# MPI" block: grid lookup (KeyError for a count that is not a key of the
\* table), coordinate, and for the stencil drivers neighbors and offsets
GridLookup ==
  /\ dpc = "start"
  /\ IF drv \in GridDrivers /\ dsize \notin DOMAIN grid
     THEN /\ dpc' = "failed" /\ derr' = "KeyError"
          /\ UNCHANGED <<dgrid, dco, dtopo>>
     ELSE /\ dpc' = "grid" /\ derr' = derr
          /\ dgrid' = IF drv \in GridDrivers THEN GridPair(drv, dsize) ELSE <<>>
          /\ dco' = IF drv \in GridDrivers
                    THEN Coord(drank, GridPair(drv, dsize)[2]) ELSE <<>>
          /\ dtopo' = IF drv = "jacobi_1d" THEN Topo1D(drank, dsize)
                      ELSE IF drv \in {"jacobi_2d", "heat_3d"}
                           THEN Topo2D(drank, grid[dsize][1], grid[dsize][2])
                           ELSE <<>>
  /\ UNCHANGED <<drv, dsize, drank, dsz, dloc, dalloc>>

\* "# Symbolic sizes" block: floor divisions, no divisibility check
ComputeLocalSizes ==
  /\ dpc = "grid"
  /\ dloc' = IF drv \in GridDrivers
             THEN LocalSizes(drv, dsz, dgrid[1], dgrid[2], dsize)
             ELSE LocalSizes(drv, dsz, 0, 0, dsize)
  /\ dpc' = "sizes"
  /\ UNCHANGED <<drv, dsize, drank, dsz, dgrid, dco, dtopo, dalloc, derr>>

\* *_distr_init(...): the local buffers are allocated and filled
InitBuffers ==
  /\ dpc = "sizes"
  /\ dalloc' = TRUE
  /\ dpc' = "init"
  /\ UNCHANGED <<drv, dsize, drank, dsz, dgrid, dco, dtopo, dloc, derr>>

\* rank 0 compiles the kernel, then comm.Barrier() is entered.  In gemm the
\* statement before the barrier is  mpi_sdfg = None@dc.program , which raises
\* TypeError; the rest of the driver text is the body of another function.
CompileAndBarrier ==
  /\ dpc = "init"
  /\ IF drv = "gemm"
     THEN dpc' = "failed" /\ derr' = "TypeError"
     ELSE dpc' = "bar1" /\ derr' = derr
  /\ UNCHANGED <<drv, dsize, drank, dsz, dgrid, dco, dtopo, dloc, dalloc>>

\* the first barrier is released, ranks > 0 load the compiled library, and
\* the second comm.Barrier() is entered
LoadAndBarrier ==
  /\ dpc = "bar1"
  /\ dpc' = "bar2"
  /\ UNCHANGED <<drv, dsize, drank, dsz, dgrid, dco, dtopo, dloc, dalloc, derr>>

\* the second barrier is released and  mpi_func(...)  is called
Invoke ==
  /\ dpc = "bar2"
  /\ dpc' = "invoked"
  /\ UNCHANGED <<drv, dsize, drank, dsz, dgrid, dco, dtopo, dloc, dalloc, derr>>

DrvNext ==
  \/ GridLookup
  \/ ComputeLocalSizes
  \/ InitBuffers
  \/ CompileAndBarrier
  \/ LoadAndBarrier
  \/ Invoke

\* ---- the state of one call of a *_distr_init function
VARIABLES
  ikern,   \* the benchmark whose initializer runs
  isize,   \* comm.Get_size()
  irank,   \* the rank whose buffers are looked at
  ipc,     \* "start", "made" (initializer returned), "read"
  ishape,  \* shape of each buffer the initializer returned
  iel      \* the element read last: [arr, idx, val]

ivars == <<ikern, isize, irank, ipc, ishape, iel>>

InitzIdle ==
  /\ ikern = "none" /\ isize = 0 /\ irank = 0 /\ ipc = "none"
  /\ ishape = <<>> /\ iel = <<>>

\* ---- the state of the validation Gather of one output array
VARIABLES
  gkern,   \* the benchmark whose output is gathered
  gsize,   \* comm.Get_size()
  gkind,   \* what the local blocks hold: "result" (symbolic kernel output) or "initial"
  gpc,     \* "start", "copied", "gathered", "done", "read"
  gsend,   \* per rank: the send buffer, flattened in C order
  grecv,   \* rank 0: the receive buffer, flattened in C order
  gout,    \* rank 0: the reassembled array, flattened in C order
  gel      \* the element of the reassembled array read last: [idx, val]

gvars == <<gkern, gsize, gkind, gpc, gsend, grecv, gout, gel>>

GatherIdle ==
  /\ gkern = "none" /\ gsize = 0 /\ gkind = "none" /\ gpc = "none"
  /\ gsend = <<>> /\ grecv = <<>> /\ gout = <<>> /\ gel = <<>>

\* ---- the state of the point-to-point validation gather of 1-D outputs
VARIABLES
  qkern,   \* the benchmark
  qsize,   \* comm.Get_size()
  qpc,     \* per rank: "gather", "barrier", "after"
  qi,      \* rank 0: the loop variable i (-1 before the loop)
  qo,      \* per rank: the number of outputs handled (in the current iteration)
  qloc,    \* per rank: the local output buffers
  qglob,   \* rank 0: the global outputs, "empty" where nothing was written
  qwrites, \* per element of a global output: how often it was written
  qchan,   \* messages sent and not yet received, per (source, tag)
  qheld    \* what the local output buffers held when the gather started

qvars == <<qkern, qsize, qpc, qi, qo, qloc, qglob, qwrites, qchan, qheld>>

P2PIdle ==
  /\ qkern = "none" /\ qsize = 0 /\ qpc = <<>> /\ qi = 0 /\ qo = <<>>
  /\ qloc = <<>> /\ qglob = <<>> /\ qwrites = <<>> /\ qchan = <<>> /\ qheld = <<>>

\* ---- the state of one validation comparison
VARIABLES
  eref,    \* the reference array
  egath,   \* the gathered array
  eerror,  \* error = relerr(ref, val), "unset" before
  eflag,   \* the printed  error < 1e-12, "unset" before
  epc      \* "none", "gathered", "validated"

evars == <<eref, egath, eerror, eflag, epc>>

RelerrIdle ==
  eref = <<>> /\ egath = <<>> /\ eerror = "unset" /\ eflag = "unset" /\ epc = "none"

\* ---- the state of a run of the benchmark cases on all processes
VARIABLES
  rsize,   \* comm.Get_size()
  rcase,   \* per rank: the benchmark case (index into MainCases) it executes
  rpc,     \* per rank: its position in the phases of the case
  rst,     \* per rank: "run", "wait" (in a barrier), in timeit "setup",
           \* "timed", "running", and "raised", "exit"
  rbuf,    \* per rank: the content of its local output buffers
  rsnap,   \* rank 0: the gathered content, by contributing rank
  rrep,    \* per rank: timed repetitions completed
  rent,    \* per rank: setup barriers entered
  rclock,  \* per rank: the timer of timeit is running
  rout,    \* the lines printed since rank 0 entered its case
  rprev    \* rank 0 printed a False validation flag in the case before

rvars == <<rsize, rcase, rpc, rst, rbuf, rsnap, rrep, rent, rclock, rout, rprev>>

RunIdle ==
  /\ rsize = 0 /\ rcase = <<>> /\ rpc = <<>> /\ rst = <<>> /\ rbuf = <<>>
  /\ rsnap = <<>> /\ rrep = <<>> /\ rent = <<>> /\ rclock = <<>>
  /\ rout = <<>> /\ rprev = FALSE

\* ---- the state of the timing of one driver on rank 0
VARIABLES
  mlist,   \* raw_time_list: the measurements so far, each with the number
           \* of kernel calls it covers
  mraw,    \* raw_time = np.median(raw_time_list), "unset" before
  mms,     \* ms_time, the printed value, "unset" before
  mpc      \* "none", "timing", "timed", "printed"

mvars == <<mlist, mraw, mms, mpc>>

TimingIdle == mlist = <<>> /\ mraw = "unset" /\ mms = "unset" /\ mpc = "none"

VARIABLES
  skern,    \* the stencil kernel whose statement is evaluated
  snbr,     \* the neighbor ranks nn, ns, nw, ne of the process
  soff,     \* its halo offsets noff, soff, woff, eoff
  sldim,    \* its local dimensions lM, lN (jacobi_1d: lR)
  sstmt,    \* index of the stencil statement in the loop body
  swrit,    \* the slice the statement writes
  sterm,    \* the slice of each operand of the statement
  sread,    \* the cells of the source buffer the statement reads
  spc       \* "entry", then "sliced"

svars == <<skern, snbr, soff, sldim, sstmt, swrit, sterm, sread, spc>>

SlicesIdle ==
  /\ skern = "none" /\ snbr = <<>> /\ soff = <<>> /\ sldim = <<>>
  /\ sstmt = 0 /\ swrit = <<>> /\ sterm = <<>> /\ sread = {} /\ spc = "none"

VARIABLES
  cdrv,     \* the driver all processes run
  cval,     \* its validate argument
  csize,    \* comm.Get_size()
  cpc,      \* cpc[r]: index of rank r's next statement
  cst,      \* cst[r]: "run", "coll", "send", "recv", "done" or "raised"
  ccoll,    \* ccoll[r]: the collectives rank r has entered, in order
  cflight,  \* the messages sent and not yet received
  csent,    \* csent[r]: the tags of the Sends rank r has posted, in order
  crecv,    \* the (source, tag) of the Recvs rank 0 has posted, in order
  cmatch,   \* the messages rank 0's Recvs have received, in order
  cfunc     \* cfunc[r]: rank r's mpi_func: "none", "compiled", "loaded", or
            \* "missing" (loaded from a build directory without the library)

cvars == <<cdrv, cval, csize, cpc, cst, ccoll, cflight, csent, crecv, cmatch, cfunc>>

CollIdle ==
  /\ cdrv = "none" /\ cval = FALSE /\ csize = 0
  /\ cpc = <<>> /\ cst = <<>> /\ ccoll = <<>> /\ cflight = {}
  /\ csent = <<>> /\ crecv = <<>> /\ cmatch = <<>> /\ cfunc = <<>>

\* ---- the state of one run of the max-reduction test SDFG
VARIABLES
  BETA,      \* the input array
  BETA_MAX,  \* the one-element output array, as the value of BETA_MAX[0]
  wcrpc,     \* "none", "start", "compute" (after state init), "done"
  wcrtodo,   \* indices of BETA the reduction has not combined yet
  wcrheld    \* what BETA held when the SDFG was called

wvars == <<BETA, BETA_MAX, wcrpc, wcrtodo, wcrheld>>

WcrIdle ==
  /\ BETA = <<>> /\ BETA_MAX = 0 /\ wcrpc = "none" /\ wcrtodo = {}
  /\ wcrheld = <<>>

\* ---- the state of a sequence of calls of the LAPACK type helpers
VARIABLES
  lpend,   \* the calls still to make, each [fn, dtype]
  lcalls   \* the calls made, each [fn, dtype, out, err]

lvars == <<lpend, lcalls>>

LapackIdle == lpend = <<>> /\ lcalls = <<>>

\* the components besides the stencil kernels and the driver set-up
ovars == <<ivars, gvars, qvars, evars, rvars, mvars, svars, cvars, wvars, lvars>>
OthersIdle == InitzIdle /\ GatherIdle /\ P2PIdle /\ RelerrIdle /\ RunIdle /\ TimingIdle /\ SlicesIdle /\ CollIdle /\ WcrIdle /\ LapackIdle

vars == <<hvars, dvars, ovars>>

\* the stencil kernels with reliable delivery
Init == HaloInit /\ DrvIdle /\ OthersIdle
Next == HaloNext /\ UNCHANGED <<dvars, ovars>>
Spec == Init /\ [][Next]_vars

\* the stencil kernels jacobi_1d_distr and jacobi_2d_distr on a lossy network
InitLossy == Init /\ kernel # "heat_3d"
NextLossy == LossyNext /\ UNCHANGED <<dvars, ovars>>
SpecLossy == InitLossy /\ [][NextLossy]_vars

\* one process of a driver, up to the first kernel invocation
InitDrv == DrvInit /\ HaloIdle /\ OthersIdle
NextDrv == DrvNext /\ UNCHANGED <<hvars, ovars>>
SpecDrv == InitDrv /\ [][NextDrv]_vars

\* ============================================================== properties
Ghost(q, d) == SliceOf(GhostSel(kernel, d), off[q], Sh)

\* the buffer exchange round number n works on: A first, then B, alternating
RoundBuf(n) == IF n % 2 = 1 THEN "A" ELSE "B"
\* exchange rounds of one kernel call
TotalRounds == 2 * (TSTEPS - 1)
SeqRange(sq) == {sq[i] : i \in 1 .. Len(sq)}
\* the Waitall of p's latest round has returned and nothing ran since
JustWaited(q) == pc[q] = "run" /\ Stmt(q).op = "Compute"
\* number of Waitall statements before statement i: the round i belongs to
RoundIdx(prog, i) == Cardinality({j \in 1 .. i - 1 : prog[j].op = "Waitall"})

\* C1: Halo correctness. When the Waitall of an exchange round on buffer X
\* has returned on a process, each ghost layer of X facing an existing
\* neighbor equals that neighbor's boundary-adjacent interior layer of X as
\* it was when the neighbor posted the send of that round; a ghost layer
\* facing MPI.PROC_NULL still holds its initial value 0, in A and in B.
HaloCorrect ==
  \A q \in Ranks : \A d \in Dirs(kernel) :
    IF nbr[q][d] = PROC_NULL
    THEN \A X \in {"A", "B"} : \A c \in Box(Ghost(q, d)) : buf[q][X][c] = 0
    ELSE JustWaited(q) =>
           \E e \in SeqRange(posted[nbr[q][d]]) :
             /\ e.rnd = waits[q] /\ e.dst = q /\ e.buf = RoundBuf(waits[q])
             /\ Payload(buf[q][RoundBuf(waits[q])], Ghost(q, d))
                  = e.edge

\* witness of C1: four processes in 1-D after their first round on A; the
\* left ghost cell of process 1 holds process 0's last interior cell and the
\* left ghost cell of process 0 is untouched
HaloCorrectWitness ==
  /\ kernel = "jacobi_1d" /\ size = 4
  /\ JustWaited(1) /\ waits[1] = 1
  /\ buf[1].A[<<0>>] = buf[0].A[<<Sh[1] - 2>>] /\ buf[1].A[<<0>>] # 0
  /\ buf[0].A[<<0>>] = 0

\* C2: Send and receive tags form inverse pairs. For grid-adjacent p and q,
\* each Isend of p to q with tag t has exactly one Irecv of q in the same
\* round with source p and tag t; that Irecv names the same buffer and
\* writes q's ghost layer on the side facing p; the tags of one round's
\* sends are pairwise distinct (1-D: west 3, east 2; 2-D and 3-D: north 0,
\* south 1, west 2, east 3); and once all processes have returned every
\* message sent has been received by exactly one receive.
TagPairing ==
  LET prog == Prog(kernel)
      sends == {i \in 1 .. Len(prog) : prog[i].op = "Isend"}
      recvs == {i \in 1 .. Len(prog) : prog[i].op = "Irecv"}
      tagOf(d) == IF kernel = "jacobi_1d" THEN (IF d = "nw" THEN 3 ELSE 2)
                  ELSE IF d = "nn" THEN 0 ELSE IF d = "ns" THEN 1
                  ELSE IF d = "nw" THEN 2 ELSE 3
  IN  /\ \A i \in sends : prog[i].tag = tagOf(prog[i].peer)
      /\ \A i1 \in sends : \A i2 \in sends :
           (i1 # i2 /\ RoundIdx(prog, i1) = RoundIdx(prog, i2))
             => prog[i1].tag # prog[i2].tag
      /\ \A p \in Ranks : \A i \in sends :
           LET q == nbr[p][prog[i].peer]
               m == {j \in recvs : /\ RoundIdx(prog, j) = RoundIdx(prog, i)
                                   /\ nbr[q][prog[j].peer] = p
                                   /\ prog[j].tag = prog[i].tag}
           IN  q # PROC_NULL =>
                 /\ Cardinality(m) = 1
                 /\ \A j \in m :
                      /\ prog[j].buf = prog[i].buf
                      /\ SliceOf(prog[j].sel, off[q], Sh) = Ghost(q, Opp(prog[i].peer))
                      /\ nbr[q][Opp(prog[i].peer)] = p
      /\ (\A p \in Ranks : pc[p] \in {"barrier", "after"}) =>
           /\ \A key \in DOMAIN chan : chan[key] = <<>>
           /\ \A p \in Ranks : \A e \in SeqRange(posted[p]) :
                Cardinality({x \in matched : x.src = p /\ x.dst = e.dst /\
                               x.tag = e.tag /\ x.srnd = e.rnd}) = 1

\* witness of C2: on a 2x2 grid all processes have returned and a message
\* sent north was received from the south
TagPairingWitness ==
  /\ kernel = "jacobi_2d" /\ size = 4
  /\ \A p \in Ranks : pc[p] = "barrier"
  /\ \E x \in matched : x.side = "ns" /\ x.tag = 0

\* C3: No ghost layer is read before its round's wait completes. Whenever a
\* process is about to execute a stencil statement reading buffer X, the
\* last Waitall that returned on it was that of a round posted on X, no
\* request of the process is still pending, and so no cell the statement
\* reads is the target of a pending receive.
NoReadBeforeWait ==
  \A p \in Ranks :
    JustWaited(p) =>
      /\ posts[p] = waits[p] /\ waits[p] >= 1
      /\ wbuf[p] = {Stmt(p).src}
      /\ \A s \in Slots :
           req[p][s].st = "pending" =>
             /\ Prog(kernel)[req[p][s].at].op # "Irecv"
             /\ Box(SliceOf(Prog(kernel)[req[p][s].at].sel, off[p], Sh))
                  \cap ReadCells(Stmt(p), off[p], Sh) = {}

\* witness of C3: a process is about to run a stencil statement that reads a
\* ghost cell a neighbor has filled in this round
NoReadBeforeWaitWitness ==
  \E p \in Ranks : \E d \in Dirs(kernel) :
    /\ JustWaited(p) /\ nbr[p][d] # PROC_NULL /\ kernel = "heat_3d"
    /\ Box(Ghost(p, d)) \cap ReadCells(Stmt(p), off[p], Sh) # {}
    /\ \E x \in matched : x.dst = p /\ x.side = d /\ x.rrnd = waits[p]

\* C4: Round ordering and buffer reuse. A process posts round N+1 only when
\* the Waitall of round N has returned; a request slot is filled only when
\* it is free; and while a round is open (posted, Waitall not returned) no
\* element of the process's A or B changes except the cells of a pending
\* receive: no stencil statement overlaps an in-flight transfer.
RoundOpen(p) == \E s \in Slots : req[p][s].st # "null"
RoundIsolationStep ==
  \A p \in Ranks :
    /\ posts'[p] # posts[p] => (posts'[p] = posts[p] + 1 /\ waits[p] = posts[p])
    /\ \A s \in Slots :
         (req'[p][s] # req[p][s] /\ req'[p][s].st # "null" /\ req[p][s].st # "pending")
           => req[p][s].st = "null"
    /\ RoundOpen(p) =>
         \A X \in {"A", "B"} : \A c \in DOMAIN buf[p][X] :
           buf'[p][X][c] # buf[p][X][c] =>
             \E s \in Slots :
               /\ req[p][s].st = "pending"
               /\ Prog(kernel)[req[p][s].at].op = "Irecv"
               /\ Prog(kernel)[req[p][s].at].buf = X
               /\ c \in Box(SliceOf(Prog(kernel)[req[p][s].at].sel, off[p], Sh))
RoundIsolation == [][RoundIsolationStep]_vars

\* witness of C4: a process has posted its second round, on B, after the
\* Waitall of the first returned, and that round is still open
RoundIsolationWitness ==
  \E p \in Ranks :
    /\ posts[p] = 2 /\ waits[p] = 1 /\ RoundOpen(p)
    /\ \E s \in Slots : req[p][s].st = "pending"

\* C5 as stated: once a message of round k addressed to q is lost, q never
\* leaves the wait of round k (the Waitall of round k never returns on q).
LostBlocksRound ==
  \A l \in lost : waits[l.dst] < l.rnd

\* C5 as amended: once a message addressed to q is lost, q never returns from
\* the kernel and never reaches the driver's next barrier: the Waitall of its
\* last round never returns.  (The wait of the round the message belonged to
\* can return, because the neighbor's next message with the same tag
\* completes the pending receive.)
LostBlocksKernel ==
  \A l \in lost :
    /\ pc[l.dst] \notin {"barrier", "after"}
    /\ waits[l.dst] < TotalRounds

\* witness of C5: a message of round 1 to q was lost, q has left the wait of
\* round 1 and waits in its last round for a message that no one will send:
\* the sender has returned and the channel is empty
LostBlocksKernelWitness ==
  \E l \in lost :
    /\ l.rnd = 1 /\ waits[l.dst] >= 1
    /\ pc[l.dst] = "run" /\ Stmt(l.dst).op = "Waitall"
    /\ waits[l.dst] = TotalRounds - 1
    /\ pc[l.src] = "barrier"
    /\ chan[<<l.src, l.dst, l.tag>>] = <<>>
    /\ \E s \in Slots : req[l.dst][s].st = "pending"

\* C6: For every supported process count n the table entry (Px, Py) has
\* Px * Py = n, and rank -> (rank div Py, rank mod Py) is a bijection from
\* 0..n-1 onto {0..Px-1} x {0..Py-1} with inverse (pi, pj) -> pi*Py + pj;
\* the coordinate a driver holds after the lookup is the image of its rank.
GridBijection ==
  /\ DOMAIN grid = {1, 2, 4, 8, 16, 32, 64, 128, 256}
  /\ (drv \in GridDrivers \ SwapDrivers /\ dpc = "grid") =>
       LET Px == grid[dsize][1]
           Py == grid[dsize][2]
           box == {[pi |-> i, pj |-> j] : i \in 0 .. Px - 1, j \in 0 .. Py - 1}
       IN  /\ Px * Py = dsize
           /\ dgrid = <<Px, Py>>
           /\ dco \in box
           /\ dco.pi * Py + dco.pj = drank
           /\ dco = [pi |-> drank \div Py, pj |-> drank % Py]
           /\ {Coord(r, Py) : r \in 0 .. dsize - 1} = box
           /\ Cardinality(box) = dsize
           /\ \A c \in box : Coord(c.pi * Py + c.pj, Py) = c

\* witness of C6: rank 5 of 8 processes (grid 2 x 4) sits at coordinate (1, 1)
GridBijectionWitness ==
  /\ drv = "jacobi_2d" /\ dsize = 8 /\ drank = 5 /\ dpc = "grid"
  /\ dgrid = <<2, 4>> /\ dco = [pi |-> 1, pj |-> 1]

\* C7 as stated: every driver with a 2-D grid uses exactly the pair the
\* static table maps the process count to.
TablePairUsed ==
  (drv \in GridDrivers /\ dgrid # <<>>) => dgrid = grid[dsize]

\* C7 as amended: atax, bicg, gemver, gesummv, mvt, jacobi_2d and heat_3d use
\* exactly the table's pair; gemm, k2mm and k3mm use the table's pair with
\* the larger dimension first (swapped when Px < Py); in both cases
\* Px * Py = n, the coordinate is (rank div Py, rank mod Py) for the pair in
\* use, and every local size is a global size divided by Px or Py of that pair.
GridPairUsed ==
  (drv \in GridDrivers /\ dgrid # <<>>) =>
    LET tx == grid[dsize][1]
        ty == grid[dsize][2]
    IN  /\ drv \notin SwapDrivers => dgrid = <<tx, ty>>
        /\ drv \in SwapDrivers =>
             dgrid = <<IF tx < ty THEN ty ELSE tx, IF tx < ty THEN tx ELSE ty>>
        /\ dgrid[1] * dgrid[2] = dsize
        /\ dco = [pi |-> drank \div dgrid[2], pj |-> drank % dgrid[2]]
        /\ \A e \in SeqRange(dloc) :
             /\ e.by = (IF e.name \in {"lM", "lNI", "lNJx", "lNKb", "lNMx"}
                        THEN dgrid[1] ELSE dgrid[2])
             /\ e.val = e.glob \div e.by

\* witness of C7: gemm on 8 processes works on the grid 4 x 2, and its local
\* sizes have been computed from it
GridPairUsedWitness ==
  /\ drv = "gemm" /\ dsize = 8 /\ dgrid = <<4, 2>> /\ dpc = "sizes"
  /\ dloc[1] = [name |-> "lNI", glob |-> 2000, by |-> 4, val |-> 500]

\* C8: Neighbor and offset derivation in jacobi_1d, jacobi_2d and heat_3d.
\* A neighbor is MPI.PROC_NULL exactly when the coordinate on that axis is 0
\* (north, west) or gridDim-1 (south, east); otherwise it is the rank in
\* [0, size) whose coordinate differs by one on that axis and is equal on the
\* other; the halo offset of a side is 1 exactly when its neighbor is
\* MPI.PROC_NULL and 0 otherwise.
NeighborDerivation ==
  (drv \in StencilKernels /\ dtopo # <<>>) =>
    LET Px == IF drv = "jacobi_1d" THEN 1 ELSE grid[dsize][1]
        Py == IF drv = "jacobi_1d" THEN dsize ELSE grid[dsize][2]
        me == [pi |-> drank \div Py, pj |-> drank % Py]
        at(q) == [pi |-> q \div Py, pj |-> q % Py]
        ok(q, edge, want, o) ==
          /\ (q = PROC_NULL) <=> edge
          /\ q # PROC_NULL => (q \in 0 .. dsize - 1 /\ at(q) = want)
          /\ o = (IF q = PROC_NULL THEN 1 ELSE 0)
    IN  /\ ok(dtopo.nbr.nw, me.pj = 0, [me EXCEPT !.pj = @ - 1], dtopo.off.woff)
        /\ ok(dtopo.nbr.ne, me.pj = Py - 1, [me EXCEPT !.pj = @ + 1], dtopo.off.eoff)
        /\ drv # "jacobi_1d" =>
             /\ ok(dtopo.nbr.nn, me.pi = 0, [me EXCEPT !.pi = @ - 1], dtopo.off.noff)
             /\ ok(dtopo.nbr.ns, me.pi = Px - 1, [me EXCEPT !.pi = @ + 1], dtopo.off.soff)

\* witness of C8: rank 5 of the 2 x 4 grid is on the south edge only
NeighborDerivationWitness ==
  /\ drv = "jacobi_2d" /\ dsize = 8 /\ drank = 5 /\ dpc = "invoked"
  /\ dtopo.nbr = [nn |-> 1, ns |-> PROC_NULL, nw |-> 4, ne |-> 6]
  /\ dtopo.off = [noff |-> 0, soff |-> 1, woff |-> 0, eoff |-> 0]

\* C9: Exact partition. In a driver that has reached the kernel invocation
\* every local size times the grid dimension it was divided by equals the
\* global size.
ExactPartition ==
  dpc = "invoked" => \A e \in SeqRange(dloc) : e.val * e.by = e.glob

\* C10: A driver given a global size that its grid dimension does not divide
\* fails before it enters a barrier and before it invokes the kernel.
NonDivisibleFails ==
  (\E e \in SeqRange(dloc) : e.glob % e.by # 0)
    => dpc \notin {"bar1", "bar2", "invoked"}

\* C11: A driver run with a process count that is not a key of the grid table
\* fails before a local buffer is allocated or initialized and before the
\* process enters a barrier or invokes the kernel.
UnsupportedCountFails ==
  dsize \notin DOMAIN grid =>
    /\ dalloc = FALSE
    /\ dpc \in {"start", "failed"}

\* ------------------------------------------------------------ initializers
\* a quotient  num / den  of the generating functions, kept as the pair
Q(num, den) == <<num, den>>

\* the global sizes a driver unpacks from its sizes argument, by name
GlobalSizes(d, sz) ==
  CASE d \in {"atax", "bicg"} -> ("M" :> sz[1]) @@ ("N" :> sz[2])
    [] d = "doitgen" -> ("NR" :> sz[1]) @@ ("NQ" :> sz[2]) @@ ("NP" :> sz[3])
    [] d = "gemm" -> ("NI" :> sz[1]) @@ ("NJ" :> sz[2]) @@ ("NK" :> sz[3])
    [] d \in {"gemver", "gesummv", "mvt"} -> ("M" :> sz[1]) @@ ("N" :> sz[1])
    [] d = "k2mm" ->
         ("NI" :> sz[1]) @@ ("NJ" :> sz[2]) @@ ("NK" :> sz[3]) @@ ("NL" :> sz[4])
    [] d = "k3mm" ->
         ("NI" :> sz[1]) @@ ("NJ" :> sz[2]) @@ ("NK" :> sz[3]) @@ ("NL" :> sz[4])
           @@ ("NM" :> sz[5])
    [] d = "jacobi_1d" -> ("TSTEPS" :> sz[1]) @@ ("NR" :> sz[2])
    [] d \in {"jacobi_2d", "heat_3d"} ->
         ("TSTEPS" :> sz[1]) @@ ("N" :> sz[2]) @@ ("M" :> sz[2])

\* global and local sizes of a driver run, by name
SizeEnv(d, sz, Px, Py, n) ==
  LET loc == LocalSizes(d, sz, Px, Py, n)
  IN  GlobalSizes(d, sz) @@
      [nm \in {loc[x].name : x \in 1 .. Len(loc)} |->
         (CHOOSE e \in {loc[x] : x \in 1 .. Len(loc)} : e.name = nm).val]

\* the grid dimension a local size symbol is a block of ("Px", "Py", or "P"
\* for the 1-D decompositions by rank)
GridAxisOf(d, nm) ==
  IF d \in {"doitgen", "jacobi_1d"} THEN (IF nm = "lR" THEN "P" ELSE "none")
  ELSE IF nm \in {"lNI", "lNJx", "lNKb", "lNMx", "lM", "lNx"} THEN "Px"
  ELSE IF nm \in {"lNJ", "lNKa", "lNL", "lNMy", "lMy", "lN"} THEN "Py"
  ELSE "none"

\* the arrays a *_distr_init generates from a function (or zero-fills)
InputArrays(d) ==
  CASE d = "atax" -> {"A", "x"}
    [] d = "bicg" -> {"A", "p", "r"}
    [] d = "doitgen" -> {"A", "C4"}
    [] d = "gemm" -> {"C", "A", "B"}
    [] d = "gemver" -> {"A", "u1", "u2", "v1", "v2", "w", "x", "y", "z"}
    [] d = "gesummv" -> {"A", "B", "x"}
    [] d = "k2mm" -> {"A", "B", "C", "D"}
    [] d = "k3mm" -> {"A", "B", "C", "D"}
    [] d = "mvt" -> {"x1", "x2", "y_1", "y_2", "A"}
    [] d \in StencilKernels -> {"A", "B"}

\* the arrays a *_distr_init returns uninitialized (np.empty)
EmptyArrays(d) ==
  CASE d = "atax" -> {"y"} [] d = "bicg" -> {"o1", "o2"}
    [] d = "gesummv" -> {"y"} [] d = "k3mm" -> {"E"}
    [] OTHER -> {}

\* number of ghost elements a stencil buffer adds to a distributed axis
Pad(d) == IF d \in StencilKernels THEN 2 ELSE 0

\* shape= arguments of the *_distr_init functions, as size names
DistrInitDims(d, a) ==
  CASE d = "atax" -> IF a = "A" THEN <<"lM", "lN">> ELSE <<"lN">>
    [] d = "bicg" ->
         IF a = "A" THEN <<"lM", "lN">>
         ELSE IF a \in {"p", "o1"} THEN <<"lN">> ELSE <<"lMy">>
    [] d = "doitgen" -> IF a = "A" THEN <<"lR", "NQ", "NP">> ELSE <<"NP", "NP">>
    [] d = "gemm" ->
         IF a = "C" THEN <<"lNI", "lNJ">>
         ELSE IF a = "A" THEN <<"lNI", "lNKa">> ELSE <<"lNKb", "lNJ">>
    [] d = "gemver" ->
         IF a = "A" THEN <<"lM", "lN">>
         ELSE IF a \in {"u1", "u2"} THEN <<"lM">>
         ELSE IF a \in {"v1", "v2", "x", "z"} THEN <<"lN">> ELSE <<"lMy">>
    [] d = "gesummv" ->
         IF a \in {"A", "B"} THEN <<"lM", "lN">>
         ELSE IF a = "x" THEN <<"lN">> ELSE <<"lMy">>
    [] d = "k2mm" ->
         IF a = "A" THEN <<"lNI", "lNKa">>
         ELSE IF a = "B" THEN <<"lNKb", "lNJ">>
         ELSE IF a = "C" THEN <<"lNJx", "lNL">> ELSE <<"lNI", "lNL">>
    [] d = "k3mm" ->
         IF a = "A" THEN <<"lNI", "lNKa">>
         ELSE IF a = "B" THEN <<"lNKa", "lNJ">>
         ELSE IF a = "C" THEN <<"lNJx", "lNMy">>
         ELSE IF a = "D" THEN <<"lNMx", "lNL">> ELSE <<"lNI", "lNL">>
    [] d = "mvt" ->
         IF a = "A" THEN <<"lM", "lN">>
         ELSE IF a \in {"x1", "y_2"} THEN <<"lMy">> ELSE <<"lN">>
    [] d = "jacobi_1d" -> <<"lR">>
    [] d = "jacobi_2d" -> <<"lM", "lN">>
    [] d = "heat_3d" -> <<"lM", "lN", "N">>

\* sizes declared for the arguments in the *_distr kernel signatures
KernelSigDims(d, a) ==
  CASE d = "atax" -> IF a = "A" THEN <<"lM", "lN">> ELSE <<"lN">>
    [] d = "bicg" ->
         IF a = "A" THEN <<"lM", "lN">>
         ELSE IF a \in {"p", "o1"} THEN <<"lN">> ELSE <<"lMy">>
    [] d = "doitgen" -> IF a = "A" THEN <<"lR", "NQ", "NP">> ELSE <<"NP", "NP">>
    [] d = "gemm" ->
         IF a = "C" THEN <<"lNI", "lNJ">>
         ELSE IF a = "A" THEN <<"lNI", "lNKa">> ELSE <<"lNKb", "lNJ">>
    [] d = "gemver" ->
         IF a = "A" THEN <<"lM", "lN">>
         ELSE IF a \in {"u1", "u2"} THEN <<"lM">>
         ELSE IF a \in {"v1", "v2", "x", "z"} THEN <<"lN">> ELSE <<"lMy">>
    [] d = "gesummv" ->
         IF a \in {"A", "B"} THEN <<"lM", "lN">>
         ELSE IF a = "x" THEN <<"lN">> ELSE <<"lMy">>
    [] d = "k2mm" ->
         IF a = "A" THEN <<"lNI", "lNKa">>
         ELSE IF a = "B" THEN <<"lNKb", "lNJ">>
         ELSE IF a = "C" THEN <<"lNJx", "lNL">> ELSE <<"lNI", "lNL">>
    [] d = "k3mm" ->
         IF a = "A" THEN <<"lNI", "lNKa">>
         ELSE IF a = "B" THEN <<"lNKb", "lNJ">>
         ELSE IF a = "C" THEN <<"lNJx", "lNMy">>
         ELSE IF a = "D" THEN <<"lNMx", "lNL">> ELSE <<"lNI", "lNL">>
    [] d = "mvt" ->
         IF a = "A" THEN <<"lM", "lN">>
         ELSE IF a \in {"x1", "y_2"} THEN <<"lMy">> ELSE <<"lN">>
    [] d = "jacobi_1d" -> <<"lR">>
    [] d = "jacobi_2d" -> <<"lM", "lN">>
    [] d = "heat_3d" -> <<"lM", "lN", "N">>

\* shape= arguments of the *_shmem_init functions, as size names
ShmemInitDims(d, a) ==
  CASE d = "atax" -> IF a = "A" THEN <<"M", "N">> ELSE <<"N">>
    [] d = "bicg" ->
         IF a = "A" THEN <<"M", "N">>
         ELSE IF a \in {"p", "o1"} THEN <<"N">> ELSE <<"M">>
    [] d = "doitgen" -> IF a = "A" THEN <<"NR", "NQ", "NP">> ELSE <<"NP", "NP">>
    [] d = "gemm" ->
         IF a = "C" THEN <<"NI", "NJ">>
         ELSE IF a = "A" THEN <<"NI", "NK">> ELSE <<"NK", "NJ">>
    [] d \in {"gemver", "gesummv", "mvt"} ->
         IF a \in {"A", "B"} THEN <<"N", "N">> ELSE <<"N">>
    [] d = "k2mm" ->
         IF a = "A" THEN <<"NI", "NK">>
         ELSE IF a = "B" THEN <<"NK", "NJ">>
         ELSE IF a = "C" THEN <<"NJ", "NL">> ELSE <<"NI", "NL">>
    [] d = "k3mm" ->
         IF a = "A" THEN <<"NI", "NK">>
         ELSE IF a = "B" THEN <<"NK", "NJ">>
         ELSE IF a = "C" THEN <<"NJ", "NM">>
         ELSE IF a = "D" THEN <<"NM", "NL">> ELSE <<"NI", "NL">>
    [] d = "jacobi_1d" -> <<"NR">>
    [] d = "jacobi_2d" -> <<"N", "N">>
    [] d = "heat_3d" -> <<"N", "N", "N">>

\* the numbers a tuple of size names stands for
DimVals(names, E) == [x \in 1 .. Len(names) |-> E[names[x]]]

\* k + q  and  q / k  on quotients
QAdd(k, q) == <<k * q[2] + q[1], q[2]>>
QDiv(q, k) == <<q[1], q[2] * k>>

\* the generating functions of the *_shmem_init functions at global index g
ShmemInitVal(d, a, g, E) ==
  LET i == g[1]
      j == IF Len(g) >= 2 THEN g[2] ELSE 0
      k == IF Len(g) >= 3 THEN g[3] ELSE 0
  IN
  CASE d = "atax" ->
         IF a = "A" THEN Q((i + j) % E["N"], 5 * E["M"])
         ELSE QAdd(1, Q(i, E["N"]))
    [] d = "bicg" ->
         IF a = "A" THEN Q((i * (j + 1)) % E["M"], E["M"])
         ELSE IF a = "p" THEN Q(i % E["N"], E["N"])
         ELSE Q(i % E["M"], E["M"])
    [] d = "doitgen" ->
         IF a = "A" THEN Q((i * j + k) % E["NP"], E["NP"])
         ELSE Q((i * j) % E["NP"], E["NP"])
    [] d = "gemm" ->
         IF a = "C" THEN Q((i * j + 1) % E["NI"], E["NI"])
         ELSE IF a = "A" THEN Q((i * (j + 1)) % E["NK"], E["NK"])
         ELSE Q((i * (j + 2)) % E["NJ"], E["NJ"])
    [] d = "gemver" ->
         IF a = "A" THEN Q((i * j) % E["N"], E["N"])
         ELSE IF a = "u1" THEN Q(i, 1)
         ELSE IF a = "u2" THEN QDiv(Q(i + 1, E["N"]), 2)
         ELSE IF a = "v1" THEN QDiv(Q(i + 1, E["N"]), 4)
         ELSE IF a = "v2" THEN QDiv(Q(i + 1, E["N"]), 6)
         ELSE IF a = "y" THEN QDiv(Q(i + 1, E["N"]), 8)
         ELSE IF a = "z" THEN QDiv(Q(i + 1, E["N"]), 9)
         ELSE Q(0, 1)
    [] d = "gesummv" ->
         IF a = "A" THEN Q((i * j + 1) % E["N"], E["N"])
         ELSE IF a = "B" THEN Q((i * j + 2) % E["N"], E["N"])
         ELSE Q(i % E["N"], E["N"])
    [] d = "k2mm" ->
         IF a = "A" THEN Q((i * j + 1) % E["NI"], E["NI"])
         ELSE IF a = "B" THEN Q((i * (j + 1)) % E["NJ"], E["NJ"])
         ELSE IF a = "C" THEN Q((i * (j + 3) + 1) % E["NL"], E["NL"])
         ELSE Q((i * (j + 2)) % E["NK"], E["NK"])
    [] d = "k3mm" ->
         IF a = "A" THEN Q((i * j + 1) % E["NI"], 5 * E["NI"])
         ELSE IF a = "B" THEN Q((i * (j + 1) + 2) % E["NJ"], 5 * E["NJ"])
         ELSE IF a = "C" THEN Q((i * (j + 3)) % E["NL"], 5 * E["NL"])
         ELSE Q((i * (j + 2) + 2) % E["NK"], 5 * E["NK"])
    [] d = "mvt" ->
         IF a = "x1" THEN Q(i % E["N"], E["N"])
         ELSE IF a = "x2" THEN Q((i + 1) % E["N"], E["N"])
         ELSE IF a = "y_1" THEN Q((i + 3) % E["N"], E["N"])
         ELSE IF a = "y_2" THEN Q((i + 4) % E["N"], E["N"])
         ELSE Q((i * j) % E["N"], E["N"])
    [] d = "jacobi_1d" ->
         IF a = "A" THEN Q(i + 2, E["NR"]) ELSE Q(i + 3, E["NR"])
    [] d = "jacobi_2d" ->
         IF a = "A" THEN Q(i * (j + 2), E["N"]) ELSE Q(i * (j + 3), E["N"])
    [] d = "heat_3d" -> Q((i + j + (E["N"] - k)) * 10, E["N"])

\* the lambdas of the *_distr_init functions at index c of the generated
\* block, on the process with coordinate (pi, pj); the 1-D decompositions
\* pass the rank as pj
DistrInitVal(d, a, c, pi, pj, E) ==
  LET i == c[1]
      j == IF Len(c) >= 2 THEN c[2] ELSE 0
      k == IF Len(c) >= 3 THEN c[3] ELSE 0
  IN
  CASE d = "atax" ->
         IF a = "A"
         THEN Q((l2g(i, pi, E["lM"]) + l2g(j, pj, E["lN"])) % E["N"], 5 * E["M"])
         ELSE QAdd(1, Q(l2g(i, pj, E["lN"]), E["N"]))
    [] d = "bicg" ->
         IF a = "A"
         THEN Q((l2g(i, pi, E["lM"]) * (l2g(j, pj, E["lN"]) + 1)) % E["M"], E["M"])
         ELSE IF a = "p" THEN Q(l2g(i, pj, E["lN"]) % E["N"], E["N"])
         ELSE Q(l2g(i, pj, E["lMy"]) % E["M"], E["M"])
    [] d = "doitgen" ->
         IF a = "A" THEN Q((l2g(i, pj, E["lR"]) * j + k) % E["NP"], E["NP"])
         ELSE Q((i * j) % E["NP"], E["NP"])
    [] d = "gemm" ->
         IF a = "C"
         THEN Q((l2g(i, pi, E["lNI"]) * l2g(j, pj, E["lNJ"]) + 1) % E["NI"], E["NI"])
         ELSE IF a = "A"
         THEN Q((l2g(i, pi, E["lNI"]) * (l2g(j, pj, E["lNKa"]) + 1)) % E["NK"], E["NK"])
         ELSE Q((l2g(i, pi, E["lNKb"]) * (l2g(j, pj, E["lNJ"]) + 2)) % E["NJ"], E["NJ"])
    [] d = "gemver" ->
         IF a = "A"
         THEN Q((l2g(i, pi, E["lM"]) * l2g(j, pj, E["lN"])) % E["N"], E["N"])
         ELSE IF a = "u1" THEN Q(l2g(i, pi, E["lM"]), 1)
         ELSE IF a = "u2" THEN QDiv(Q(l2g(i, pi, E["lM"]) + 1, E["N"]), 2)
         ELSE IF a = "v1" THEN QDiv(Q(l2g(i, pj, E["lN"]) + 1, E["N"]), 4)
         ELSE IF a = "v2" THEN QDiv(Q(l2g(i, pj, E["lN"]) + 1, E["N"]), 6)
         ELSE IF a = "y" THEN QDiv(Q(l2g(i, pj, E["lMy"]) + 1, E["N"]), 8)
         ELSE IF a = "z" THEN QDiv(Q(l2g(i, pj, E["lN"]) + 1, E["N"]), 9)
         ELSE Q(0, 1)
    [] d = "gesummv" ->
         IF a = "A"
         THEN Q((l2g(i, pi, E["lM"]) * l2g(j, pj, E["lN"]) + 1) % E["N"], E["N"])
         ELSE IF a = "B"
         THEN Q((l2g(i, pi, E["lM"]) * l2g(j, pj, E["lN"]) + 2) % E["N"], E["N"])
         ELSE Q(l2g(i, pj, E["lN"]) % E["N"], E["N"])
    [] d = "k2mm" ->
         IF a = "A"
         THEN Q((l2g(i, pi, E["lNI"]) * l2g(j, pj, E["lNKa"]) + 1) % E["NI"], E["NI"])
         ELSE IF a = "B"
         THEN Q((l2g(i, pi, E["lNKb"]) * (l2g(j, pj, E["lNJ"]) + 1)) % E["NJ"], E["NJ"])
         ELSE IF a = "C"
         THEN Q((l2g(i, pi, E["lNJx"]) * (l2g(j, pj, E["lNL"]) + 3) + 1) % E["NL"], E["NL"])
         ELSE Q((l2g(i, pi, E["lNI"]) * (l2g(j, pj, E["lNL"]) + 2)) % E["NK"], E["NK"])
    [] d = "k3mm" ->
         IF a = "A"
         THEN Q((l2g(i, pi, E["lNI"]) * l2g(j, pj, E["lNKa"]) + 1) % E["NI"], 5 * E["NI"])
         ELSE IF a = "B"
         THEN Q((l2g(i, pi, E["lNKb"]) * (l2g(j, pj, E["lNJ"]) + 1) + 2) % E["NJ"],
                5 * E["NJ"])
         ELSE IF a = "C"
         THEN Q((l2g(i, pi, E["lNJx"]) * (l2g(j, pj, E["lNMy"]) + 3)) % E["NL"],
                5 * E["NL"])
         ELSE Q((l2g(i, pi, E["lNMx"]) * (l2g(j, pj, E["lNL"]) + 2) + 2) % E["NK"],
                5 * E["NK"])
    [] d = "mvt" ->
         IF a = "x1" THEN Q(l2g(i, pj, E["lMy"]) % E["N"], E["N"])
         ELSE IF a = "x2" THEN Q((l2g(i, pj, E["lN"]) + 1) % E["N"], E["N"])
         ELSE IF a = "y_1" THEN Q((l2g(i, pj, E["lN"]) + 3) % E["N"], E["N"])
         ELSE IF a = "y_2" THEN Q((l2g(i, pj, E["lMy"]) + 4) % E["N"], E["N"])
         ELSE Q((l2g(i, pi, E["lM"]) * l2g(j, pj, E["lN"])) % E["N"], E["N"])
    [] d = "jacobi_1d" ->
         IF a = "A" THEN Q(l2g(i, pj, E["lR"]) + 2, E["NR"])
         ELSE Q(l2g(i, pj, E["lR"]) + 3, E["NR"])
    [] d = "jacobi_2d" ->
         IF a = "A"
         THEN Q(l2g(i, pi, E["lM"]) * (l2g(j, pj, E["lN"]) + 2), E["N"])
         ELSE Q(l2g(i, pi, E["lM"]) * (l2g(j, pj, E["lN"]) + 3), E["N"])
    [] d = "heat_3d" ->
         Q((l2g(i, pi, E["lM"]) + l2g(j, pj, E["lN"]) + (E["N"] - k)) * 10, E["N"])

\* small global sizes, divisible by every grid dimension of n processes, on
\* which the initializers are evaluated element by element
SmallSizes(d, n) ==
  LET g(x) == n * (LocalDim + x - 1)
  IN  CASE d \in {"atax", "bicg"} -> <<g(1), g(2)>>
        [] d \in {"doitgen", "gemm"} -> <<g(1), g(2), g(3)>>
        [] d \in {"gemver", "gesummv", "mvt"} -> <<g(1)>>
        [] d = "k2mm" -> <<g(1), g(2), g(3), g(4)>>
        [] d = "k3mm" -> <<g(1), g(2), g(3), g(4), g(5)>>
        [] d \in StencilKernels -> <<TSTEPS, g(1)>>

\* Px, Py as the driver d uses them on n processes
PxPy(d, n) == IF d \in GridDrivers THEN GridPair(d, n) ELSE <<1, n>>

\* the (pi, pj) the driver passes to its initializer
InitCoord(d, n, r) ==
  IF d \in GridDrivers THEN Coord(r, PxPy(d, n)[2]) ELSE [pi |-> 0, pj |-> r]

IEnv == SizeEnv(ikern, SmallSizes(ikern, isize), PxPy(ikern, isize)[1],
                PxPy(ikern, isize)[2], isize)

\* shape of the buffer *_distr_init returns for array a: the generated
\* block, padded by the ghost layers on the distributed axes of a stencil
DistrInitShape(d, a, E) ==
  LET nm == DistrInitDims(d, a)
  IN  [x \in 1 .. Len(nm) |->
         E[nm[x]] + (IF GridAxisOf(d, nm[x]) # "none" THEN Pad(d) ELSE 0)]

\* element b of the buffer *_distr_init returns for input array a
DistrInitElem(d, a, b, co, E) ==
  LET nm == DistrInitDims(d, a)
      padded(x) == Pad(d) > 0 /\ GridAxisOf(d, nm[x]) # "none"
      ghost == \E x \in 1 .. Len(nm) :
                 padded(x) /\ (b[x] = 0 \/ b[x] = E[nm[x]] + 1)
      c == [x \in 1 .. Len(nm) |-> IF padded(x) THEN b[x] - 1 ELSE b[x]]
  IN  IF ghost THEN Q(0, 1) ELSE DistrInitVal(d, a, c, co.pi, co.pj, E)

DistrInitStart ==
  \E d \in Drivers : \E n \in Sizes(d) :
    /\ ikern = d /\ isize = n /\ irank = 0 /\ ipc = "start"
    /\ ishape = <<>> /\ iel = <<>>

\* rank r calls  *_distr_init(...)  and gets its buffers
CallDistrInit(r) ==
  /\ ipc = "start"
  /\ irank' = r
  /\ ishape' = [a \in InputArrays(ikern) \cup EmptyArrays(ikern) |->
                  DistrInitShape(ikern, a, IEnv)]
  /\ ipc' = "made"
  /\ UNCHANGED <<ikern, isize, iel>>

\* one element of one generated buffer is read
ReadElement(a, b) ==
  /\ ipc = "made"
  /\ a \in InputArrays(ikern)
  /\ b \in Cells(ishape[a])
  /\ iel' = [arr |-> a, idx |-> b,
             val |-> DistrInitElem(ikern, a, b, InitCoord(ikern, isize, irank), IEnv)]
  /\ ipc' = "read"
  /\ UNCHANGED <<ikern, isize, irank, ishape>>

DistrInitNext ==
  \/ \E r \in 0 .. isize - 1 : CallDistrInit(r)
  \/ \E a \in DOMAIN ishape : \E b \in Cells(ishape[a]) : ReadElement(a, b)

\* the initializers of all benchmarks, element by element
InitDistrInit == DistrInitStart /\ HaloIdle /\ DrvIdle /\ GatherIdle /\ P2PIdle /\ RelerrIdle /\ RunIdle /\ TimingIdle /\ SlicesIdle /\ CollIdle /\ WcrIdle /\ LapackIdle
NextDistrInit == DistrInitNext /\ UNCHANGED <<hvars, dvars, gvars, qvars, evars, rvars, mvars, svars, cvars, wvars, lvars>>
SpecDistrInit == InitDistrInit /\ [][NextDistrInit]_vars

\* size of the grid dimension named ax in the run whose initializer is looked at
IGridDim(ax) ==
  IF ax = "Px" THEN PxPy(ikern, isize)[1]
  ELSE IF ax = "Py" THEN PxPy(ikern, isize)[2]
  ELSE IF ax = "P" THEN isize ELSE 1

\* the coordinate of a process along the grid dimension named ax
ICoordOn(ax, co) ==
  IF ax = "Px" THEN co.pi ELSE IF ax \in {"Py", "P"} THEN co.pj ELSE 0

\* the global index the claim assigns to index c of rank r's block of a:
\* per axis, l2g with the coordinate and block size of the kernel signature
IGlobalIndex(a, c, co) ==
  LET sig == KernelSigDims(ikern, a)
  IN  [x \in 1 .. Len(sig) |->
         IF GridAxisOf(ikern, sig[x]) = "none" THEN c[x]
         ELSE l2g(c[x], ICoordOn(GridAxisOf(ikern, sig[x]), co), IEnv[sig[x]])]

\* C12: Initializer determinism. Every generated (non-ghost) element of a
\* block returned by *_distr_init equals the *_shmem_init generating function
\* at the global index l2g gives for it, and along every axis of every input
\* array the blocks of the processes tile the global index range: each
\* global index is produced by exactly one (coordinate, local index) pair.
InitMatchesGlobal ==
  /\ ipc = "read" =>
       LET a == iel.arr
           nm == DistrInitDims(ikern, a)
           padded(x) == Pad(ikern) > 0 /\ GridAxisOf(ikern, nm[x]) # "none"
           ghost == \E x \in 1 .. Len(nm) :
                      padded(x) /\ (iel.idx[x] = 0 \/ iel.idx[x] = ishape[a][x] - 1)
           c == [x \in 1 .. Len(nm) |-> IF padded(x) THEN iel.idx[x] - 1 ELSE iel.idx[x]]
       IN  ~ghost =>
             iel.val = ShmemInitVal(ikern, a,
                         IGlobalIndex(a, c, InitCoord(ikern, isize, irank)), IEnv)
  /\ ipc = "made" =>
       \A a \in InputArrays(ikern) :
         LET sig == KernelSigDims(ikern, a)
             glob == DimVals(ShmemInitDims(ikern, a), IEnv)
         IN  \A x \in 1 .. Len(sig) :
               LET ax == GridAxisOf(ikern, sig[x])
                   len == ishape[a][x] - (IF ax # "none" THEN Pad(ikern) ELSE 0)
               IN  \A g \in 0 .. glob[x] - 1 :
                     Cardinality({pc2 \in (0 .. IGridDim(ax) - 1) \X (0 .. len - 1) :
                                    l2g(pc2[2], pc2[1], IEnv[sig[x]]) = g}) = 1

\* C13: Local block shape. Every buffer returned by *_distr_init has the
\* shape declared for it in the *_distr kernel signature, which along each
\* distributed axis is globalDim / gridDim (plus 2 ghost elements for the
\* stencil buffers).
LocalBlockShape ==
  ipc \in {"made", "read"} =>
    \A a \in DOMAIN ishape :
      LET sig == KernelSigDims(ikern, a)
          glob == DimVals(ShmemInitDims(ikern, a), IEnv)
      IN  /\ Len(ishape[a]) = Len(sig)
          /\ \A x \in 1 .. Len(sig) :
               LET ax == GridAxisOf(ikern, sig[x])
               IN  IF ax = "none" THEN ishape[a][x] = glob[x]
                   ELSE /\ ishape[a][x] = IEnv[sig[x]] + Pad(ikern)
                        /\ IEnv[sig[x]] * IGridDim(ax) = glob[x]

\* ------------------------------------------------------ validation gather
\* drivers whose validation block gathers a 2-D (3-D) output with
\* comm.Gather and reassembles it with transpose and reshape.  (The same
\* statements follow gemm's driver text, after the statement that ends gemm
\* with TypeError.)
GatherDrivers == {"gemver", "k2mm", "k3mm", "jacobi_2d", "heat_3d"}

\* local sizes of the gathered block, as size names
GatherBlockDims(d) ==
  CASE d = "gemver" -> <<"lM", "lN">>
    [] d \in {"k2mm", "k3mm"} -> <<"lNI", "lNL">>
    [] d = "jacobi_2d" -> <<"lM", "lN">>
    [] d = "heat_3d" -> <<"lM", "lN", "N">>

\* the reshape target, as size names
GatherGlobalDims(d) ==
  CASE d = "gemver" -> <<"N", "N">>
    [] d \in {"k2mm", "k3mm"} -> <<"NI", "NL">>
    [] d = "jacobi_2d" -> <<"N", "N">>
    [] d = "heat_3d" -> <<"N", "N", "N">>

\* the axes argument of np.transpose, 1-based, without and with the swap
GatherPerm_Untransposed(d) == IF d = "heat_3d" THEN <<1, 2, 3, 4, 5>> ELSE <<1, 2, 3, 4>>

GatherPerm(d) == IF d = "heat_3d" THEN <<1, 3, 2, 4, 5>> ELSE <<1, 3, 2, 4>>

\* C-order flat position (0-based) of index idx in an array of shape sh
RECURSIVE Ravel(_, _, _)
Ravel(idx, sh, x) ==
  IF x = 0 THEN 0 ELSE Ravel(idx, sh, x - 1) * sh[x] + idx[x]

\* the index at C-order flat position f of an array of shape sh
RECURSIVE Stride(_, _)
Stride(sh, x) == IF x >= Len(sh) THEN 1 ELSE sh[x + 1] * Stride(sh, x + 1)

Unravel(f, sh) == [x \in 1 .. Len(sh) |-> (f \div Stride(sh, x)) % sh[x]]

GEnv == SizeEnv(gkern, SmallSizes(gkern, gsize), PxPy(gkern, gsize)[1],
                PxPy(gkern, gsize)[2], gsize)

\* what rank r's local block holds at index c when the gather starts
BlockValue(r, c) ==
  IF gkind = "initial"
  THEN DistrInitVal(gkern, "A", c, InitCoord(gkern, gsize, r).pi,
                    InitCoord(gkern, gsize, r).pj, GEnv)
  ELSE [rank |-> r, at |-> c]

GatherStart ==
  \E d \in GatherDrivers : \E n \in Sizes(d) :
    \E kd \in (IF d \in StencilKernels THEN {"result", "initial"} ELSE {"result"}) :
      /\ gkern = d /\ gsize = n /\ gkind = kd /\ gpc = "start"
      /\ gsend = <<>> /\ grecv = <<>> /\ gout = <<>> /\ gel = <<>>

\* every rank takes the block to send:  tA = lA[1:-1, 1:-1].copy()  in the
\* stencil drivers, the local output itself otherwise
CopyBlocks ==
  /\ gpc = "start"
  /\ gsend' = [r \in 0 .. gsize - 1 |->
                 LET sh == DimVals(GatherBlockDims(gkern), GEnv)
                 IN  [f \in 1 .. Stride(sh, 0) |-> BlockValue(r, Unravel(f - 1, sh))]]
  /\ gpc' = "copied"
  /\ UNCHANGED <<gkern, gsize, gkind, grecv, gout, gel>>

\* send buffers of ranks 0 .. r, one after the other
RECURSIVE InRankOrder(_, _)
InRankOrder(snd, r) ==
  IF r < 0 THEN <<>> ELSE InRankOrder(snd, r - 1) \o snd[r]

\* comm.Gather(tA, A): rank 0 receives the send buffers in rank order
Gather ==
  /\ gpc = "copied"
  /\ grecv' = InRankOrder(gsend, gsize - 1)
  /\ gpc' = "gathered"
  /\ UNCHANGED <<gkern, gsize, gkind, gsend, gout, gel>>

\* A = np.transpose(A, axes).reshape(...).copy()  on rank 0, A being the
\* receive buffer viewed with shape (Px, Py, l0, l1[, N])
TransposeReshape ==
  /\ gpc = "gathered"
  /\ LET st == PxPy(gkern, gsize) \o DimVals(GatherBlockDims(gkern), GEnv)
         perm == GatherPerm(gkern)
         tsh == [x \in 1 .. Len(st) |-> st[perm[x]]]
         src(tix) == [y \in 1 .. Len(st) |->
                        tix[CHOOSE x \in 1 .. Len(st) : perm[x] = y]]
     IN  gout' = [f \in 1 .. Len(grecv) |->
                    grecv[Ravel(src(Unravel(f - 1, tsh)), st, Len(st)) + 1]]
  /\ gpc' = "done"
  /\ UNCHANGED <<gkern, gsize, gkind, gsend, grecv, gel>>

\* rank 0 reads element g of the reassembled array
ReadGathered(g) ==
  /\ gpc = "done"
  /\ LET sh == DimVals(GatherGlobalDims(gkern), GEnv)
     IN  /\ g \in Cells(sh)
         /\ gel' = [idx |-> g, val |-> gout[Ravel(g, sh, Len(sh)) + 1]]
  /\ gpc' = "read"
  /\ UNCHANGED <<gkern, gsize, gkind, gsend, grecv, gout>>

GatherNext ==
  \/ CopyBlocks
  \/ Gather
  \/ TransposeReshape
  \/ \E g \in Cells(DimVals(GatherGlobalDims(gkern), GEnv)) : ReadGathered(g)

InitGather == GatherStart /\ HaloIdle /\ DrvIdle /\ InitzIdle /\ P2PIdle /\ RelerrIdle /\ RunIdle /\ TimingIdle /\ SlicesIdle /\ CollIdle /\ WcrIdle /\ LapackIdle
NextGather == GatherNext /\ UNCHANGED <<hvars, dvars, ivars, qvars, evars, rvars, mvars, svars, cvars, wvars, lvars>>
SpecGather == InitGather /\ [][NextGather]_vars

\* C14: Gather reassembly. After Gather, transpose and reshape the array on
\* rank 0 holds at [pi*l0 + i, pj*l1 + j (, k)] the element [i, j (, k)] of
\* the block of rank pi*Py + pj; and when the blocks hold the initial
\* values (no stencil step), the reassembled array is the generating
\* function over the whole global index space.
GatherReassembles ==
  gpc = "read" =>
    LET bl == DimVals(GatherBlockDims(gkern), GEnv)
        P == PxPy(gkern, gsize)
        g == gel.idx
        pi == g[1] \div bl[1]
        pj == g[2] \div bl[2]
        c == [x \in 1 .. Len(g) |-> IF x <= 2 THEN g[x] % bl[x] ELSE g[x]]
        r == pi * P[2] + pj
    IN  /\ pi < P[1] /\ pj < P[2]
        /\ gel.val = gsend[r][Ravel(c, bl, Len(bl)) + 1]
        /\ gkind = "result" => gel.val = [rank |-> r, at |-> c]
        /\ gkind = "initial" => gel.val = ShmemInitVal(gkern, "A", g, GEnv)

\* witness of C14: on the 2 x 2 grid with global shape 8 x 8 and initial
\* blocks, an element of the block of rank 2 (coordinate (1, 0)) is read
GatherReassemblesWitness ==
  /\ gpc = "read" /\ gkern = "jacobi_2d" /\ gsize = 4 /\ gkind = "initial"
  /\ GEnv["N"] = 4 * LocalDim
  /\ gel.idx = <<GEnv["lM"] + 1, 1>>
  /\ gel.val = gsend[2][GEnv["lN"] + 2]

\* ----------------------------------------------- point-to-point gather
\* drivers whose validation block collects 1-D outputs (doitgen: slabs of
\* rows) on rank 0 with comm.Send / comm.Recv
P2PDrivers == {"atax", "bicg", "doitgen", "gemver", "gesummv", "mvt"}

\* the outputs collected, in program order: global name, global and local
\* length, and whether the tag is i (0) or i + Py (1)
P2POutputs(d) ==
  CASE d = "atax" -> << [out |-> "y", glen |-> "N", len |-> "lN", hi |-> 0] >>
    [] d = "bicg" -> << [out |-> "o1", glen |-> "N", len |-> "lN", hi |-> 0],
                        [out |-> "o2", glen |-> "M", len |-> "lMy", hi |-> 1] >>
    [] d = "doitgen" -> << [out |-> "A", glen |-> "NR", len |-> "lR", hi |-> 0] >>
    [] d = "gemver" -> << [out |-> "x", glen |-> "N", len |-> "lN", hi |-> 0],
                          [out |-> "w", glen |-> "N", len |-> "lMy", hi |-> 1] >>
    [] d = "gesummv" -> << [out |-> "y", glen |-> "N", len |-> "lMy", hi |-> 0] >>
    [] d = "mvt" -> << [out |-> "x1", glen |-> "N", len |-> "lMy", hi |-> 0],
                       [out |-> "x2", glen |-> "N", len |-> "lN", hi |-> 1] >>

QEnv == SizeEnv(qkern, SmallSizes(qkern, qsize), PxPy(qkern, qsize)[1],
                PxPy(qkern, qsize)[2], qsize)

\* the bound of rank 0's loop: range(Py), in doitgen range(size)
P2PCount == IF qkern = "doitgen" THEN qsize ELSE PxPy(qkern, qsize)[2]

\* the ranks that take the  elif pi == 0  (doitgen: else) branch and send
P2PSenders ==
  {r \in 1 .. qsize - 1 :
     qkern = "doitgen" \/ InitCoord(qkern, qsize, r).pi = 0}

\* the tag rank 0 expects for output number o of source i, and the tag the
\* sender with column coordinate pj uses
P2PTag(i, o) == i + P2POutputs(qkern)[o].hi * PxPy(qkern, qsize)[2]

\* first element of the segment of source i in a global output
SegStart_Unscaled(i, len) == i

SegStart(i, len) == i * len

\* a[lo : lo + Len(v)] = v
WriteSeg(a, lo, v) ==
  [x \in 1 .. Len(a) |-> IF x - 1 \in lo .. lo + Len(v) - 1 THEN v[x - lo] ELSE a[x]]

\* the write counts after a[lo : lo + n] was assigned
CountSeg(w, lo, n) ==
  [x \in 1 .. Len(w) |-> IF x - 1 \in lo .. lo + n - 1 THEN w[x] + 1 ELSE w[x]]

P2PStart ==
  \E d \in P2PDrivers : \E n \in Sizes(d) :
    /\ qkern = d /\ qsize = n
    /\ qpc = [r \in 0 .. n - 1 |-> "gather"]
    /\ qi = -1
    /\ qo = [r \in 0 .. n - 1 |-> 0]
    /\ LET E == SizeEnv(d, SmallSizes(d, n), PxPy(d, n)[1], PxPy(d, n)[2], n)
           outs == P2POutputs(d)
           names == {outs[o].out : o \in 1 .. Len(outs)}
           of(nm) == CHOOSE o \in 1 .. Len(outs) : outs[o].out = nm
           res == [r \in 0 .. n - 1 |-> [nm \in names |->
                     [x \in 1 .. E[outs[of(nm)].len] |->
                        [rank |-> r, out |-> nm, at |-> x - 1]]]]
       IN  /\ qloc = res /\ qheld = res
           /\ qglob = [nm \in names |-> [x \in 1 .. E[outs[of(nm)].glen] |-> "empty"]]
           /\ qwrites = [nm \in names |-> [x \in 1 .. E[outs[of(nm)].glen] |-> 0]]
    /\ qchan = <<>>

\* rank 0:  y = np.empty((N,)); y[0:lN] = ly  for every output
P2PCopyOwn ==
  /\ qpc[0] = "gather" /\ qi = -1
  /\ LET outs == P2POutputs(qkern)
         of(nm) == CHOOSE o \in 1 .. Len(outs) : outs[o].out = nm
     IN  /\ qglob' = [nm \in DOMAIN qglob |-> WriteSeg(qglob[nm], 0, qloc[0][nm])]
         /\ qwrites' = [nm \in DOMAIN qglob |->
                          CountSeg(qwrites[nm], 0, QEnv[outs[of(nm)].len])]
  /\ qi' = 0
  /\ UNCHANGED <<qkern, qsize, qpc, qo, qloc, qchan, qheld>>

\* rank 0: one turn of  for i in range(Py)  that takes  continue  (i == pj),
\* or the end of the loop and the entry into comm.Barrier()
P2PLoop ==
  /\ qpc[0] = "gather" /\ qi >= 0
  /\ IF qi >= P2PCount
     THEN qpc' = [qpc EXCEPT ![0] = "barrier"] /\ UNCHANGED <<qi, qo>>
     ELSE /\ (qi = 0 \/ qo[0] = Len(P2POutputs(qkern)))
          /\ qi' = qi + 1 /\ qo' = [qo EXCEPT ![0] = 0] /\ UNCHANGED qpc
  /\ UNCHANGED <<qkern, qsize, qloc, qglob, qwrites, qchan, qheld>>

\* rank 0:  comm.Recv(ly, source=i, tag=...); y[i*lN:(i+1)*lN] = ly
P2PRecv ==
  /\ qpc[0] = "gather" /\ qi >= 1 /\ qi < P2PCount
  /\ qo[0] < Len(P2POutputs(qkern))
  /\ LET o == qo[0] + 1
         spec == P2POutputs(qkern)[o]
         key == <<qi, P2PTag(qi, o)>>
     IN  /\ key \in DOMAIN qchan /\ qchan[key] # <<>>
         /\ qloc' = [qloc EXCEPT ![0][spec.out] = Head(qchan[key])]
         /\ qchan' = [qchan EXCEPT ![key] = Tail(@)]
         /\ qglob' = [qglob EXCEPT ![spec.out] =
                        WriteSeg(@, SegStart(qi, QEnv[spec.len]), Head(qchan[key]))]
         /\ qwrites' = [qwrites EXCEPT ![spec.out] =
                          CountSeg(@, SegStart(qi, QEnv[spec.len]), QEnv[spec.len])]
  /\ qo' = [qo EXCEPT ![0] = @ + 1]
  /\ UNCHANGED <<qkern, qsize, qpc, qi, qheld>>

\* a rank with pi == 0 (doitgen: any rank > 0):  comm.Send(ly, dest=0, tag=pj)
P2PSend(r) ==
  /\ r \in P2PSenders /\ qpc[r] = "gather"
  /\ qo[r] < Len(P2POutputs(qkern))
  /\ LET o == qo[r] + 1
         key == <<r, P2PTag(InitCoord(qkern, qsize, r).pj, o)>>
         old == IF key \in DOMAIN qchan THEN qchan[key] ELSE <<>>
     IN  qchan' = (key :> Append(old, qloc[r][P2POutputs(qkern)[o].out])) @@ qchan
  /\ qo' = [qo EXCEPT ![r] = @ + 1]
  /\ UNCHANGED <<qkern, qsize, qpc, qi, qloc, qglob, qwrites, qheld>>

\* a rank > 0 that has nothing (more) to send enters comm.Barrier()
P2PEnterBarrier(r) ==
  /\ r \in 1 .. qsize - 1 /\ qpc[r] = "gather"
  /\ r \in P2PSenders => qo[r] = Len(P2POutputs(qkern))
  /\ qpc' = [qpc EXCEPT ![r] = "barrier"]
  /\ UNCHANGED <<qkern, qsize, qi, qo, qloc, qglob, qwrites, qchan, qheld>>

\* comm.Barrier() returns on all ranks
P2PBarrier ==
  /\ \A r \in 0 .. qsize - 1 : qpc[r] = "barrier"
  /\ qpc' = [r \in 0 .. qsize - 1 |-> "after"]
  /\ UNCHANGED <<qkern, qsize, qi, qo, qloc, qglob, qwrites, qchan, qheld>>

P2PNext ==
  \/ P2PCopyOwn
  \/ P2PLoop
  \/ P2PRecv
  \/ \E r \in 0 .. qsize - 1 : P2PSend(r)
  \/ \E r \in 0 .. qsize - 1 : P2PEnterBarrier(r)
  \/ P2PBarrier

InitP2P == P2PStart /\ HaloIdle /\ DrvIdle /\ InitzIdle /\ GatherIdle /\ RelerrIdle /\ RunIdle /\ TimingIdle /\ SlicesIdle /\ CollIdle /\ WcrIdle /\ LapackIdle
NextP2P == P2PNext /\ UNCHANGED <<hvars, dvars, ivars, gvars, evars, rvars, mvars, svars, cvars, wvars, lvars>>
SpecP2P == InitP2P /\ [][NextP2P]_vars

\* C15: Point-to-point gather. Once rank 0 has left the gather, for every
\* gathered output and every column coordinate c (doitgen: rank c) the
\* segment [c*l, (c+1)*l) of the global output holds what the process at
\* coordinate (0, c) held in its local output when the gather started, and
\* every element of the global output was written exactly once; during the
\* gather no element is written twice.
P2PGatherCorrect ==
  /\ \A nm \in DOMAIN qwrites : \A x \in 1 .. Len(qwrites[nm]) : qwrites[nm][x] <= 1
  /\ (qsize > 0 /\ qpc[0] \in {"barrier", "after"}) =>
       \A o \in 1 .. Len(P2POutputs(qkern)) :
         LET spec == P2POutputs(qkern)[o]
             l == QEnv[spec.len]
         IN  /\ Len(qglob[spec.out]) = P2PCount * l
             /\ \A c \in 0 .. P2PCount - 1 : \A x \in 0 .. l - 1 :
                  /\ qglob[spec.out][c * l + x + 1] = qheld[c][spec.out][x + 1]
                  /\ InitCoord(qkern, qsize, c) = [pi |-> 0, pj |-> c]
             /\ \A x \in 1 .. Len(qwrites[spec.out]) : qwrites[spec.out][x] = 1

\* witness of C15: bicg on the 2 x 2 grid after the gather: the second half
\* of o2 came from rank 1 with tag 1 + Py
P2PGatherCorrectWitness ==
  /\ qkern = "bicg" /\ qsize = 4 /\ qpc[0] = "after"
  /\ qglob["o2"][QEnv["lMy"] + 1] = [rank |-> 1, out |-> "o2", at |-> 0]
  /\ qloc[0]["o2"] = qheld[1]["o2"]

\* ------------------------------------------------------------ relerr
\* longest array compared
MaxLen == 3

\* the values of the array elements
ElemVals == -1 .. 1

\* 1e-12 is 10 ^ -TolExp
TolExp == 12

RECURSIVE SumSq(_)
\* np.linalg.norm(v) ** 2
SumSq(v) == IF v = <<>> THEN 0 ELSE Head(v) * Head(v) + SumSq(Tail(v))

\* float64 division of two norms, kept as the pair of their squares; a zero
\* divisor gives nan for 0.0 / 0.0 and inf otherwise
NormDiv(nsq, dsq) ==
  IF dsq = 0
  THEN (IF nsq = 0 THEN [kind |-> "nan"] ELSE [kind |-> "inf"])
  ELSE [kind |-> "num", sq |-> Q(nsq, dsq)]

\* np.linalg.norm(ref - val) / np.linalg.norm(ref)
relerr(ref, val) ==
  NormDiv(SumSq([x \in DOMAIN ref |-> ref[x] - val[x]]), SumSq(ref))

RECURSIVE BelowPow10(_, _, _)
\* num / den < 10 ^ -e
BelowPow10(num, den, e) ==
  IF num >= den THEN FALSE
  ELSE IF e = 0 THEN TRUE ELSE BelowPow10(10 * num, den, e - 1)

\* error < 1e-12 ; every comparison with nan is False
BelowTol(error) ==
  /\ error.kind = "num"
  /\ BelowPow10(error.sq[1], error.sq[2], 2 * TolExp)

\* error == 0.0
IsZero(error) == error.kind = "num" /\ error.sq[1] = 0

RelerrStart ==
  \E n \in 1 .. MaxLen :
    /\ eref \in [1 .. n -> ElemVals]
    /\ egath \in [1 .. n -> ElemVals]
    /\ eerror = "unset" /\ eflag = "unset" /\ epc = "gathered"

\* error = relerr(refy, y); print("validation: {} ({})".format(error < 1e-12, error))
Validate ==
  /\ epc = "gathered"
  /\ eerror' = relerr(eref, egath)
  /\ eflag' = BelowTol(relerr(eref, egath))
  /\ epc' = "validated"
  /\ UNCHANGED <<eref, egath>>

InitRelerr == RelerrStart /\ HaloIdle /\ DrvIdle /\ InitzIdle /\ GatherIdle /\ P2PIdle /\ RunIdle /\ TimingIdle /\ SlicesIdle /\ CollIdle /\ WcrIdle /\ LapackIdle
NextRelerr == Validate /\ UNCHANGED <<hvars, dvars, ivars, gvars, qvars, rvars, mvars, svars, cvars, wvars, lvars>>
SpecRelerr == InitRelerr /\ [][NextRelerr]_vars

\* C17: the relative error of a reference array of zeros against a gathered
\* array of zeros is exactly 0.0, and the check  error < 1e-12  prints True.
ZeroRelerrPasses ==
  (/\ epc = "validated"
   /\ \A x \in DOMAIN eref : eref[x] = 0 /\ egath[x] = 0)
    => IsZero(eerror) /\ eflag = TRUE

\* ------------------------------------------------- a run of the cases
\* repeat = 10
repeat == 10

\* for sizes in <d>_sizes: <d>(sizes, validate)
CasesOf(d, v) ==
  [i \in 1 .. Len(SizesOf(d)) |-> [drv |-> d, sizes |-> SizesOf(d)[i], validate |-> v]]

\* the driver calls of __main__, in order
MainCases ==
  CasesOf("atax", TRUE) \o CasesOf("bicg", TRUE) \o CasesOf("doitgen", TRUE)
    \o CasesOf("gemm", TRUE) \o CasesOf("gemver", TRUE) \o CasesOf("gesummv", TRUE)
    \o CasesOf("k2mm", TRUE) \o CasesOf("k3mm", TRUE) \o CasesOf("mvt", TRUE)
    \o CasesOf("jacobi_1d", TRUE) \o CasesOf("jacobi_2d", FALSE)

\* kernels whose outputs are updated from their own previous content
\* (+=, D[:] = ... + beta * D, A[r] = A[r] @ C4, the stencil sweeps)
Accumulating ==
  {"doitgen", "gemm", "gemver", "k2mm", "mvt", "jacobi_1d", "jacobi_2d"}

\* the content of the output buffers after one more kernel call, as the
\* number of calls it depends on
AfterCall(d, c) == IF d \in Accumulating THEN c + 1 ELSE 1

\* the outputs whose validation line is printed, in order
RunOutputs(d) ==
  CASE d = "atax" -> <<"y">> [] d = "bicg" -> <<"o1", "o2">>
    [] d = "doitgen" -> <<"A">> [] d = "gemm" -> <<"C">>
    [] d = "gemver" -> <<"A", "x", "w">> [] d = "gesummv" -> <<"y">>
    [] d = "k2mm" -> <<"D">> [] d = "k3mm" -> <<"E">>
    [] d = "mvt" -> <<"x1", "x2">> [] d = "jacobi_1d" -> <<"A", "B">>
    [] d = "jacobi_2d" -> <<"A", "B", "B">>

\* the ranks whose local buffers reach rank 0 in the validation gather
RunContributors(d, n) ==
  IF d \in GatherDrivers \cup {"doitgen", "jacobi_1d"}
  THEN 0 .. n - 1
  ELSE {r \in 0 .. n - 1 : InitCoord(d, n, r).pi = 0}

\* Phases with the validation gather after the timed repetitions
Phases_GatherLast(c) ==
  IF c.drv = "gemm" THEN <<"enter", "raise">>
  ELSE <<"enter", "barrier", "load", "barrier", "call", "barrier">>
         \o <<"timeit">>
         \o (IF c.validate
             THEN <<"gather">> \o (IF c.drv \in {"jacobi_1d", "jacobi_2d"}
                                   THEN <<>> ELSE <<"barrier">>)
             ELSE <<>>)
         \o <<"median">>
         \o (IF c.validate THEN <<"validate">> ELSE <<>>)
         \o <<"return">>

\* the statements of a driver in program order; gemm ends at its
\* mpi_sdfg = None@dc.program
Phases(c) ==
  IF c.drv = "gemm" THEN <<"enter", "raise">>
  ELSE <<"enter", "barrier", "load", "barrier", "call", "barrier">>
         \o (IF c.validate
             THEN <<"gather">> \o (IF c.drv \in {"jacobi_1d", "jacobi_2d"}
                                   THEN <<>> ELSE <<"barrier">>)
             ELSE <<>>)
         \o <<"timeit", "median">>
         \o (IF c.validate THEN <<"validate">> ELSE <<>>)
         \o <<"return">>

RunCase(r) == MainCases[rcase[r]]

Phase(r) == Phases(RunCase(r))[rpc[r]]

\* if rank == 0:  before a print, on any rank
Reporter_Any(r) == TRUE

\* if rank == 0:  before a print
Reporter(r) == r = 0

\* setup of timeit without the barrier
SetupStmt_Pass == "pass"

\* setup = "comm.Barrier()"
SetupStmt == "comm.Barrier()"

Line(r, text, what, ok) == [rank |-> r, text |-> text, what |-> what, ok |-> ok]

IsValidationLine(l) == l.text = "validation"

\* the flags of the validation lines printed so far
Flags(out) ==
  LET v == SelectSeq(out, IsValidationLine)
  IN  [i \in 1 .. Len(v) |-> v[i].ok]

Range(f) == {f[x] : x \in DOMAIN f}

RunStart ==
  \E i \in 1 .. Len(MainCases) : \E n \in Sizes("atax") :
    /\ rsize = n
    /\ rcase = [r \in 0 .. n - 1 |-> i]
    /\ rpc = [r \in 0 .. n - 1 |-> 1]
    /\ rst = [r \in 0 .. n - 1 |-> "run"]
    /\ rbuf = [r \in 0 .. n - 1 |-> 0]
    /\ rsnap = <<>>
    /\ rrep = [r \in 0 .. n - 1 |-> 0]
    /\ rent = [r \in 0 .. n - 1 |-> 0]
    /\ rclock = [r \in 0 .. n - 1 |-> FALSE]
    /\ rout = <<>> /\ rprev = FALSE

Adv(r) == rpc' = [rpc EXCEPT ![r] = @ + 1]

\* entry of a driver up to the first barrier: grid lookup, the two header
\* prints, local sizes, initialization, compilation on rank 0
RunEnter(r) ==
  /\ rst[r] = "run" /\ Phase(r) = "enter"
  /\ LET c == RunCase(r)
         head == IF Reporter(r)
                 THEN <<Line(r, "name", c.drv, TRUE), Line(r, "sizes", c.drv, TRUE)>>
                 ELSE <<>>
     IN  /\ rout' = IF r = 0 THEN head ELSE rout \o head
         /\ rsnap' = IF r = 0 THEN <<>> ELSE rsnap
  /\ rbuf' = [rbuf EXCEPT ![r] = 0]
  /\ rrep' = [rrep EXCEPT ![r] = 0]
  /\ rent' = [rent EXCEPT ![r] = 0]
  /\ Adv(r)
  /\ UNCHANGED <<rsize, rcase, rst, rclock, rprev>>

\* gemm: mpi_sdfg = None@dc.program  raises TypeError
RunRaise(r) ==
  /\ rst[r] = "run" /\ Phase(r) = "raise"
  /\ rst' = [rst EXCEPT ![r] = "raised"]
  /\ UNCHANGED <<rsize, rcase, rpc, rbuf, rsnap, rrep, rent, rclock, rout, rprev>>

\* comm.Barrier() is entered
RunBarrierEnter(r) ==
  /\ rst[r] = "run" /\ Phase(r) = "barrier"
  /\ rst' = [rst EXCEPT ![r] = "wait"]
  /\ UNCHANGED <<rsize, rcase, rpc, rbuf, rsnap, rrep, rent, rclock, rout, rprev>>

\* comm.Barrier() returns on all ranks once all have entered one
RunRelease ==
  /\ \A r \in 0 .. rsize - 1 : rst[r] = "wait"
  /\ rst' = [r \in 0 .. rsize - 1 |-> IF Phase(r) = "timeit" THEN "timed" ELSE "run"]
  /\ rpc' = [r \in 0 .. rsize - 1 |-> IF Phase(r) = "barrier" THEN rpc[r] + 1 ELSE rpc[r]]
  /\ UNCHANGED <<rsize, rcase, rbuf, rsnap, rrep, rent, rclock, rout, rprev>>

\* if rank > 0: mpi_func = CompiledSDFG(...);  ldict = locals()
RunLoad(r) ==
  /\ rst[r] = "run" /\ Phase(r) = "load"
  /\ Adv(r)
  /\ UNCHANGED <<rsize, rcase, rst, rbuf, rsnap, rrep, rent, rclock, rout, rprev>>

\* the first, untimed  mpi_func(...)
RunCall(r) ==
  /\ rst[r] = "run" /\ Phase(r) = "call"
  /\ rbuf' = [rbuf EXCEPT ![r] = AfterCall(RunCase(r).drv, @)]
  /\ Adv(r)
  /\ UNCHANGED <<rsize, rcase, rst, rsnap, rrep, rent, rclock, rout, rprev>>

\* if validate: the gather of the local outputs; rank 0 returns when it
\* has every contribution
RunGather(r) ==
  /\ rst[r] = "run" /\ Phase(r) = "gather"
  /\ LET from == RunContributors(RunCase(r).drv, rsize)
     IN  /\ r = 0 => from \ {0} \subseteq DOMAIN rsnap
         /\ rsnap' = IF r \in from THEN (r :> rbuf[r]) @@ rsnap ELSE rsnap
  /\ Adv(r)
  /\ UNCHANGED <<rsize, rcase, rst, rbuf, rrep, rent, rclock, rout, rprev>>

\* timeit.repeat: the setup statement of the next repetition
RunSetup(r) ==
  /\ rst[r] = "run" /\ Phase(r) = "timeit"
  /\ IF SetupStmt = "comm.Barrier()"
     THEN /\ rst' = [rst EXCEPT ![r] = "wait"]
          /\ rent' = [rent EXCEPT ![r] = @ + 1]
     ELSE /\ rst' = [rst EXCEPT ![r] = "timed"]
          /\ UNCHANGED rent
  /\ UNCHANGED <<rsize, rcase, rpc, rbuf, rsnap, rrep, rclock, rout, rprev>>

\* timeit.repeat: the timer is read and the statement starts
RunTimedStart(r) ==
  /\ rst[r] = "timed"
  /\ rst' = [rst EXCEPT ![r] = "running"]
  /\ rclock' = [rclock EXCEPT ![r] = TRUE]
  /\ UNCHANGED <<rsize, rcase, rpc, rbuf, rsnap, rrep, rent, rout, rprev>>

\* RunTimedEnd with rank 0's part of the gathered array sharing memory
\* with rank 0's local buffers
RunTimedEnd_Aliased(r) ==
  /\ rst[r] = "running"
  /\ rbuf' = [rbuf EXCEPT ![r] = AfterCall(RunCase(r).drv, @)]
  /\ rsnap' = IF r = 0 /\ 0 \in DOMAIN rsnap
              THEN [rsnap EXCEPT ![0] = AfterCall(RunCase(r).drv, rbuf[r])]
              ELSE rsnap
  /\ rclock' = [rclock EXCEPT ![r] = FALSE]
  /\ rrep' = [rrep EXCEPT ![r] = @ + 1]
  /\ rst' = [rst EXCEPT ![r] = "run"]
  /\ IF rrep[r] + 1 = repeat THEN Adv(r) ELSE UNCHANGED rpc
  /\ UNCHANGED <<rsize, rcase, rent, rout, rprev>>

\* timeit.repeat: the statement mpi_func(...) returns, the timer is read
RunTimedEnd(r) ==
  /\ rst[r] = "running"
  /\ rbuf' = [rbuf EXCEPT ![r] = AfterCall(RunCase(r).drv, @)]
  /\ rclock' = [rclock EXCEPT ![r] = FALSE]
  /\ rrep' = [rrep EXCEPT ![r] = @ + 1]
  /\ rst' = [rst EXCEPT ![r] = "run"]
  /\ IF rrep[r] + 1 = repeat THEN Adv(r) ELSE UNCHANGED rpc
  /\ UNCHANGED <<rsize, rcase, rsnap, rent, rout, rprev>>

\* raw_time = np.median(raw_time_list); if rank == 0: print("Median is ...")
RunMedian(r) ==
  /\ rst[r] = "run" /\ Phase(r) = "median"
  /\ rout' = IF Reporter(r)
             THEN Append(rout, Line(r, "median", RunCase(r).drv, TRUE)) ELSE rout
  /\ Adv(r)
  /\ UNCHANGED <<rsize, rcase, rst, rbuf, rsnap, rrep, rent, rclock, rprev>>

\* RunValidate that raises on a failed comparison
RunValidate_Fatal(r) ==
  /\ rst[r] = "run" /\ Phase(r) = "validate"
  /\ IF r # 0
     THEN Adv(r) /\ UNCHANGED <<rout, rst>>
     ELSE LET outs == RunOutputs(RunCase(r).drv)
              flags == Flags(rout)
              j == Len(flags) + 1
          IN  \E ok \in BOOLEAN :
                /\ (j > 1 /\ outs[j] = outs[j - 1]) => ok = flags[j - 1]
                /\ rout' = Append(rout, Line(r, "validation", outs[j], ok))
                /\ rst' = IF ok THEN rst ELSE [rst EXCEPT ![r] = "raised"]
                /\ IF j = Len(outs) /\ ok THEN Adv(r) ELSE UNCHANGED rpc
  /\ UNCHANGED <<rsize, rcase, rbuf, rsnap, rrep, rent, rclock, rprev>>

\* if validate: if rank == 0:  the reference run (before the first line),
\* error = relerr(ref, out) and the print of one validation line; the stray
\* last print of jacobi_2d repeats the error of B
RunValidate(r) ==
  /\ rst[r] = "run" /\ Phase(r) = "validate"
  /\ IF r # 0
     THEN Adv(r) /\ UNCHANGED rout
     ELSE LET outs == RunOutputs(RunCase(r).drv)
              flags == Flags(rout)
              j == Len(flags) + 1
          IN  /\ \E ok \in BOOLEAN :
                   /\ (j > 1 /\ outs[j] = outs[j - 1]) => ok = flags[j - 1]
                   /\ rout' = Append(rout, Line(r, "validation", outs[j], ok))
              /\ IF j = Len(outs) THEN Adv(r) ELSE UNCHANGED rpc
  /\ UNCHANGED <<rsize, rcase, rst, rbuf, rsnap, rrep, rent, rclock, rprev>>

\* the driver returns and __main__ calls the next one, or ends
RunReturn(r) ==
  /\ rst[r] = "run" /\ Phase(r) = "return"
  /\ IF rcase[r] < Len(MainCases)
     THEN /\ rcase' = [rcase EXCEPT ![r] = @ + 1]
          /\ rpc' = [rpc EXCEPT ![r] = 1]
          /\ UNCHANGED rst
     ELSE /\ rst' = [rst EXCEPT ![r] = "exit"]
          /\ UNCHANGED <<rcase, rpc>>
  /\ rprev' = IF r = 0 THEN FALSE \in Range(Flags(rout)) ELSE rprev
  /\ UNCHANGED <<rsize, rbuf, rsnap, rrep, rent, rclock, rout>>

RunNext ==
  \/ RunRelease
  \/ \E r \in 0 .. rsize - 1 :
       \/ RunEnter(r) \/ RunRaise(r) \/ RunBarrierEnter(r) \/ RunLoad(r)
       \/ RunCall(r) \/ RunGather(r) \/ RunSetup(r) \/ RunTimedStart(r)
       \/ RunTimedEnd(r) \/ RunMedian(r) \/ RunValidate(r) \/ RunReturn(r)

InitRun == RunStart /\ HaloIdle /\ DrvIdle /\ InitzIdle /\ GatherIdle /\ P2PIdle /\ RelerrIdle /\ TimingIdle /\ SlicesIdle /\ CollIdle /\ WcrIdle /\ LapackIdle
NextRun == RunNext /\ UNCHANGED <<hvars, dvars, ivars, gvars, qvars, evars, mvars, svars, cvars, wvars, lvars>>
SpecRun == InitRun /\ [][NextRun]_vars

MismatchStep ==
  /\ rsize > 0
  /\ Len(rout') = Len(rout) + 1
  /\ rout'[Len(rout')].text = "validation"
  /\ rout'[Len(rout')].ok = FALSE

\* C18: A validation mismatch is not fatal. The step that prints a False
\* flag is taken by rank 0, raises nothing and leaves rank 0 at the next
\* output of the kernel or, after the last one, at the return to the next
\* case; no process ever stops with an error except in gemm's TypeError.
MismatchNonFatal ==
  /\ [](rsize > 0 =>
          \A r \in 0 .. rsize - 1 : rst[r] = "raised" => RunCase(r).drv = "gemm")
  /\ [][MismatchStep =>
          /\ rout'[Len(rout')].rank = 0
          /\ rst' = rst /\ rcase' = rcase
          /\ \A r \in 1 .. rsize - 1 : rpc'[r] = rpc[r]
          /\ Phases(MainCases[rcase'[0]])[rpc'[0]] =
               IF Len(Flags(rout')) < Len(RunOutputs(RunCase(0).drv))
               THEN "validate" ELSE "return"]_vars

\* witness of C18: the case before reported a mismatch and this bicg case
\* ran on all 4 processes; its o1 failed, o2 was still validated, and the
\* other processes are already in the next case
MismatchNonFatalWitness ==
  /\ rsize = 4 /\ rprev
  /\ RunCase(0).drv = "bicg" /\ Phase(0) = "return"
  /\ Flags(rout) = <<FALSE, TRUE>>
  /\ \A r \in 1 .. 3 : rcase[r] = rcase[0] + 1

BarrierBeforeTimedCall ==
  rsize > 0 =>
    \A p \in 0 .. rsize - 1 :
      /\ rclock[p] <=> rst[p] = "running"
      /\ rst[p] \in {"timed", "running"} =>
           /\ rent[p] = rrep[p] + 1
           /\ \A q \in 0 .. rsize - 1 :
                \/ rcase[q] > rcase[p]
                \/ /\ rcase[q] = rcase[p]
                   /\ rrep[q] >= rrep[p]
                   /\ rent[q] >= rrep[p] + 1

\* witness of C20: rank 1 is in its 2nd timed call while rank 2 has
\* finished its 2nd and waits in the setup barrier of the 3rd
BarrierBeforeTimedCallWitness ==
  /\ rsize = 4
  /\ rst[1] = "running" /\ rrep[1] = 1
  /\ rst[2] = "wait" /\ rrep[2] = 2 /\ rent[2] = 3

\* ------------------------------------------------------------ timing
\* number=1  of timeit.repeat: kernel calls per measurement
number == 1

\* a measurement is a multiple of half a millisecond
UnitsPerMs == 2

\* the durations one timed call can take, in units
TimeVals == 1 .. 3

\* sorted(raw_time_list)[k - 1]: the k-th smallest duration
KthSmallest(l, k) ==
  CHOOSE v \in {l[i].time : i \in DOMAIN l} :
    /\ Cardinality({i \in DOMAIN l : l[i].time < v}) < k
    /\ Cardinality({i \in DOMAIN l : l[i].time <= v}) >= k

\* np.mean of the measurements, in units
Median_Mean(l) ==
  LET RECURSIVE Sum(_)
      Sum(n) == IF n = 0 THEN 0 ELSE l[n].time + Sum(n - 1)
  IN  Q(Sum(Len(l)), Len(l))

\* np.median of an even number of measurements: the mean of the two middle
\* ones, in units
Median(l) ==
  Q(KthSmallest(l, Len(l) \div 2) + KthSmallest(l, Len(l) \div 2 + 1), 2)

\* int(round(x)) for x = num / den >= 0: nearest integer, a tie to the even one
RoundHalfEven(num, den) ==
  LET fl == num \div den
      twice == 2 * (num % den)
  IN  IF twice < den THEN fl
      ELSE IF twice > den THEN fl + 1
      ELSE IF fl % 2 = 0 THEN fl ELSE fl + 1

\* time_to_ms(raw) = int(round(raw * 1000)), raw given in units
time_to_ms(raw) == RoundHalfEven(raw[1], raw[2] * UnitsPerMs)

TimingStart ==
  mlist = <<>> /\ mraw = "unset" /\ mms = "unset" /\ mpc = "timing"

\* one repetition of timeit.repeat: setup, then  number  calls are timed
TimeOne ==
  /\ mpc = "timing"
  /\ \E d \in TimeVals : mlist' = Append(mlist, [time |-> d, calls |-> number])
  /\ mpc' = IF Len(mlist) + 1 = repeat THEN "timed" ELSE "timing"
  /\ UNCHANGED <<mraw, mms>>

\* raw_time = np.median(raw_time_list); ms_time = time_to_ms(raw_time); print
ReportMedian ==
  /\ mpc = "timed"
  /\ mraw' = Median(mlist)
  /\ mms' = time_to_ms(Median(mlist))
  /\ mpc' = "printed"
  /\ UNCHANGED mlist

TimingNext == TimeOne \/ ReportMedian

InitTiming == TimingStart /\ HaloIdle /\ DrvIdle /\ InitzIdle /\ GatherIdle /\ P2PIdle /\ RelerrIdle /\ RunIdle /\ SlicesIdle /\ CollIdle /\ WcrIdle /\ LapackIdle
NextTiming == TimingNext /\ UNCHANGED <<hvars, dvars, ivars, gvars, qvars, evars, rvars, svars, cvars, wvars, lvars>>
SpecTiming == InitTiming /\ [][NextTiming]_vars

\* x = num / den is a median of the measurements: at least half are <= x,
\* at least half are >= x, and x lies between the smallest and the largest
IsMedianOf(num, den, l) ==
  /\ Cardinality({i \in DOMAIN l : l[i].time * den <= num}) >= repeat \div 2
  /\ Cardinality({i \in DOMAIN l : l[i].time * den >= num}) >= repeat \div 2
  /\ \E i \in DOMAIN l : l[i].time * den <= num
  /\ \E i \in DOMAIN l : l[i].time * den >= num

\* C21: There are exactly 10 measurements of one kernel call each; the
\* median rank 0 computes has at least 5 measurements on either side and
\* lies between the smallest and the largest, and the value it prints is
\* that median rounded to whole milliseconds (at most half a millisecond off).
MedianReported ==
  mpc = "printed" =>
    /\ Len(mlist) = repeat
    /\ \A i \in DOMAIN mlist : mlist[i].calls = 1
    /\ IsMedianOf(mraw[1], mraw[2], mlist)
    /\ 2 * (mms * UnitsPerMs * mraw[2] - mraw[1]) <= UnitsPerMs * mraw[2]
    /\ 2 * (mraw[1] - mms * UnitsPerMs * mraw[2]) <= UnitsPerMs * mraw[2]

\* witness of C21: an outlier of 1.5 ms among measurements of 0.5 ms and
\* 1 ms; the median is 0.75 ms and 1 ms is printed
MedianReportedWitness ==
  /\ mpc = "printed" /\ mraw = Q(3, 2) /\ mms = 1
  /\ mlist[1].time = 3

\* C21 as stated: the printed value itself has at least 5 of the 10
\* measurements on either side and lies between the smallest and largest.
PrintedIsMedian ==
  mpc = "printed" =>
    /\ Len(mlist) = repeat
    /\ \A i \in DOMAIN mlist : mlist[i].calls = 1
    /\ IsMedianOf(mms * UnitsPerMs, 1, mlist)

\* ------------------------------------------- single-process reference
\* jacobi_1d_shmem / jacobi_2d_shmem: the loop body on the global arrays
RefProg(k) ==
  IF k = "jacobi_1d"
  THEN << Compute("B", "A", <<Mid>>,
                  << Term(1, <<S(0, "none", 2, "none")>>),
                     Term(1, <<Mid>>),
                     Term(1, <<S(2, "none", 0, "none")>>) >>),
          Compute("A", "B", <<Mid>>,
                  << Term(1, <<S(0, "none", 2, "none")>>),
                     Term(1, <<Mid>>),
                     Term(1, <<S(2, "none", 0, "none")>>) >>) >>
  ELSE << Compute("B", "A", <<Mid, Mid>>,
                  << Term(1, <<Mid, Mid>>),
                     Term(1, <<Mid, S(0, "none", 2, "none")>>),
                     Term(1, <<Mid, S(2, "none", 0, "none")>>),
                     Term(1, <<S(2, "none", 0, "none"), Mid>>),
                     Term(1, <<S(0, "none", 2, "none"), Mid>>) >>),
          Compute("A", "B", <<Mid, Mid>>,
                  << Term(1, <<Mid, Mid>>),
                     Term(1, <<Mid, S(0, "none", 2, "none")>>),
                     Term(1, <<Mid, S(2, "none", 0, "none")>>),
                     Term(1, <<S(2, "none", 0, "none"), Mid>>),
                     Term(1, <<S(0, "none", 2, "none"), Mid>>) >>) >>

\* shape of the global arrays of the reference
RefShape(k, n) ==
  IF k = "jacobi_1d" THEN <<GlobalN(k, n)>> ELSE <<GlobalN(k, n), GlobalN(k, n)>>

\* jacobi_1d_shmem_init / jacobi_2d_shmem_init, scaled by N
RefInit(k, n) ==
  [X \in {"A", "B"} |->
     [g \in Cells(RefShape(k, n)) |->
        LET plus == IF X = "A" THEN 2 ELSE 3
        IN  IF k = "jacobi_1d" THEN g[1] + plus ELSE g[1] * (g[2] + plus)]]

RECURSIVE RefRun(_, _, _, _)
\* for t in range(tt, TSTEPS): the two stencil statements
RefRun(k, bufs, tt, sh) ==
  IF tt >= TSTEPS THEN bufs
  ELSE LET b1 == [bufs EXCEPT !.B = Stencil(RefProg(k)[1], bufs, <<>>, sh)]
           b2 == [b1 EXCEPT !.A = Stencil(RefProg(k)[2], b1, <<>>, sh)]
       IN  RefRun(k, b2, tt + 1, sh)

\* the arrays the reference kernel leaves
Reference(k, n) == RefRun(k, RefInit(k, n), 1, RefShape(k, n))

\* global index of the padded local cell c of process p
GlobalIdx(k, n, p, c) ==
  LET sh == Shape(k, n)
      gi == l2g(c[1] - 1, Coord(p, GridOf(k, n)[2]).pi, sh[1] - 2)
  IN  IF k = "jacobi_1d" THEN <<l2g(c[1] - 1, p, sh[1] - 2)>>
      ELSE IF k = "jacobi_2d"
           THEN <<gi, l2g(c[2] - 1, Coord(p, GridOf(k, n)[2]).pj, sh[2] - 2)>>
           ELSE <<gi, l2g(c[2] - 1, Coord(p, GridOf(k, n)[2]).pj, sh[2] - 2),
                  c[3]>>

\* C22: Distributed stencil refines the single-process reference. When
\* jacobi_1d_distr or jacobi_2d_distr has returned on a process, every
\* interior element of its A and B equals the element at the corresponding
\* global index of the arrays jacobi_1d_shmem / jacobi_2d_shmem produce for
\* the same TSTEPS from the single-process initial arrays.
RefinesReference ==
  kernel \in {"jacobi_1d", "jacobi_2d"} =>
    \A p \in Ranks :
      pc[p] \in {"barrier", "after"} =>
        LET ref == Reference(kernel, size)
        IN  \A X \in {"A", "B"} : \A c \in Interior(kernel, Sh) :
              buf[p][X][c] = ref[X][GlobalIdx(kernel, size, p, c)]

\* witness of C22: jacobi_2d has returned on the 2 x 2 grid and the
\* element of A at global (1, 1), owned by process 0, was recomputed
RefinesReferenceWitness ==
  /\ kernel = "jacobi_2d" /\ size = 4
  /\ \A p \in Ranks : pc[p] = "after"
  /\ buf[0]["A"][<<2, 2>>] = Reference(kernel, size)["A"][<<1, 1>>]
  /\ buf[0]["A"][<<2, 2>>] # RefInit(kernel, size)["A"][<<1, 1>>]

\* --------------------------------------------------- fixed boundaries
\* the cells a half-step of the single-process kernel writes:  [1:-1]  on
\* every axis of the global array
RefWritten(k, n) ==
  Box([a \in 1 .. Len(Shape(k, n)) |-> Rng(1, 1, GlobalN(k, n))])

\* global indices of the cells process p writes in the stencil statement st
WrittenBy(p, st) ==
  {GlobalIdx(kernel, size, p, c) : c \in Box(SliceOf(st.sel, off[p], Sh))}

ComputeStmts == {i \in DOMAIN Prog(kernel) : Prog(kernel)[i].op = "Compute"}

\* C23: Fixed-boundary compute range. In each half-step the global indices
\* written by the compute steps of all ranks are exactly those the reference
\* kernel writes (1..N-2 on each axis), no index is written by two
\* processes, and the elements on the global boundary keep the values the
\* initializer gave them, on every grid including the single-process one.
FixedBoundaryRange ==
  /\ \A i \in ComputeStmts :
       LET st == Prog(kernel)[i]
       IN  /\ UNION {WrittenBy(p, st) : p \in Ranks} = RefWritten(kernel, size)
           /\ \A p, q \in Ranks :
                p # q => WrittenBy(p, st) \cap WrittenBy(q, st) = {}
  /\ \A p \in Ranks : \A X \in {"A", "B"} : \A c \in Interior(kernel, Sh) :
       GlobalIdx(kernel, size, p, c) \notin RefWritten(kernel, size)
         => buf[p][X][c] = DistrInit(kernel, p, size)[X][c]

\* witness of C23: jacobi_1d has returned on two processes; process 0 kept
\* its element at global index 0 and recomputed the one at global index 1
FixedBoundaryRangeWitness ==
  /\ kernel = "jacobi_1d" /\ size = 2
  /\ \A p \in Ranks : pc[p] = "after"
  /\ off[0]["woff"] = 1
  /\ buf[0]["A"][<<1>>] = DistrInit(kernel, 0, size)["A"][<<1>>]
  /\ buf[0]["A"][<<2>>] # DistrInit(kernel, 0, size)["A"][<<2>>]
  /\ GlobalIdx(kernel, size, 0, <<2>>) \in RefWritten(kernel, size)

\* ------------------------------------------- slices of a stencil statement
\* the offset of the side towards neighbor d
OffName(d) == IF d = "nn" THEN "noff" ELSE IF d = "ns" THEN "soff"
              ELSE IF d = "nw" THEN "woff" ELSE "eoff"

\* shape of the padded buffers for local dimensions ld; the third axis of
\* heat_3d is not distributed and has the global length
SShape(k, ld) ==
  IF k = "jacobi_1d" THEN <<ld[1] + 2>>
  ELSE IF k = "jacobi_2d" THEN <<ld[1] + 2, ld[2] + 2>>
  ELSE <<ld[1] + 2, ld[2] + 2, ld[2] * 2>>

\* a process at any position of its grid: a side without neighbor gets the
\* sentinel and offset 1, a side with a neighbor offset 0
SlicesStart ==
  \E k \in StencilKernels :
    \E nb \in [Dirs(k) -> {PROC_NULL, 0}] :
      \E ld \in [1 .. (IF k = "jacobi_1d" THEN 1 ELSE 2) -> 1 .. LocalDim] :
        /\ skern = k
        /\ snbr = nb
        /\ soff = [o \in {OffName(d) : d \in Dirs(k)} |->
                     IF \E d \in Dirs(k) : OffName(d) = o /\ nb[d] = PROC_NULL
                     THEN 1 ELSE 0]
        /\ sldim = ld
        /\ sstmt = 0 /\ swrit = <<>> /\ sterm = <<>> /\ sread = {}
        /\ spc = "entry"

\* the subscripts of the i-th statement of the loop body are evaluated
EvalSlices(i) ==
  /\ spc = "entry"
  /\ i \in DOMAIN Prog(skern)
  /\ Prog(skern)[i].op = "Compute"
  /\ LET st == Prog(skern)[i]
         sh == SShape(skern, sldim)
     IN  /\ swrit' = SliceOf(st.sel, soff, sh)
         /\ sterm' = [n \in DOMAIN st.terms |-> SliceOf(st.terms[n].sel, soff, sh)]
         /\ sread' = ReadCells(st, soff, sh)
  /\ sstmt' = i
  /\ spc' = "sliced"
  /\ UNCHANGED <<skern, snbr, soff, sldim>>

SlicesNext == \E i \in 1 .. Len(Prog2D) : EvalSlices(i)

InitSlices == SlicesStart /\ HaloIdle /\ DrvIdle /\ InitzIdle /\ GatherIdle /\ P2PIdle /\ RelerrIdle /\ RunIdle /\ TimingIdle /\ CollIdle /\ WcrIdle /\ LapackIdle
NextSlices == SlicesNext /\ UNCHANGED <<hvars, dvars, ivars, gvars, qvars, evars, rvars, mvars, cvars, wvars, lvars>>
SpecSlices == InitSlices /\ [][NextSlices]_vars

\* every cell of the ghost layer on side d, corners included
GhostLayer(k, d, sh) ==
  LET ax == IF k = "jacobi_1d" \/ d \in {"nn", "ns"} THEN 1 ELSE 2
      ix == IF d \in {"nn", "nw"} THEN 0 ELSE sh[ax] - 1
  IN  {c \in Cells(sh) : c[ax] = ix}

\* the ghost cells that lie in two ghost layers
Corners(sh) ==
  {c \in Cells(sh) : c[1] \in {0, sh[1] - 1} /\ c[2] \in {0, sh[2] - 1}}

\* C24: No compute step reads a ghost cell no receive has written. For every
\* combination of the offsets noff, soff, woff, eoff, the operands of a
\* stencil statement contain no cell of the ghost layer of a side whose
\* neighbor is the sentinel, and in the 2-D and 3-D kernels no corner ghost
\* cell.
NoUnwrittenGhostRead ==
  spc = "sliced" =>
    /\ \A d \in Dirs(skern) :
         snbr[d] = PROC_NULL =>
           sread \cap GhostLayer(skern, d, SShape(skern, sldim)) = {}
    /\ skern # "jacobi_1d" => sread \cap Corners(SShape(skern, sldim)) = {}

\* witness of C24: a heat_3d process on the north-west corner of its grid
\* reads the south and east ghost layers but not the north and west ones
NoUnwrittenGhostReadWitness ==
  /\ spc = "sliced" /\ skern = "heat_3d"
  /\ snbr["nn"] = PROC_NULL /\ snbr["nw"] = PROC_NULL
  /\ snbr["ns"] # PROC_NULL /\ snbr["ne"] # PROC_NULL
  /\ sldim = <<2, 2>>
  /\ <<3, 2, 1>> \in sread /\ <<2, 3, 1>> \in sread
  /\ <<0, 2, 1>> \notin sread /\ <<2, 0, 1>> \notin sread

\* number of elements of a range
Count(r) == IF r.stop > r.start THEN r.stop - r.start ELSE 0

\* the offsets of the low and the high side of distributed axis a
LowOff(k, a) == IF k = "jacobi_1d" \/ a = 2 THEN "woff" ELSE "noff"
HighOff(k, a) == IF k = "jacobi_1d" \/ a = 2 THEN "eoff" ELSE "soff"

\* C25: Offset-threaded slices are conformant. For every combination of
\* offsets and every local dimension >= 1, with a bound  -h  (h >= 0) read
\* as h elements before the end of the axis, each operand slice of a
\* stencil statement selects along each distributed axis as many elements
\* as the written slice: local_dim - lowOffset - highOffset, or none when
\* that is negative.
SlicesConform ==
  spc = "sliced" =>
    \A a \in DistAxes(skern) :
      /\ Count(swrit[a]) =
           (IF sldim[a] - soff[LowOff(skern, a)] - soff[HighOff(skern, a)] < 0
            THEN 0
            ELSE sldim[a] - soff[LowOff(skern, a)] - soff[HighOff(skern, a)])
      /\ \A n \in DOMAIN sterm : Count(sterm[n][a]) = Count(swrit[a])

\* witness of C25: a jacobi_1d process with a neighbor on both sides; all
\* three operands have the lR elements of the written slice
SlicesConformWitness ==
  /\ spc = "sliced" /\ skern = "jacobi_1d"
  /\ soff["woff"] = 0 /\ soff["eoff"] = 0 /\ sldim[1] = 2
  /\ Count(swrit[1]) = 2
  /\ sterm[3][1] = [start |-> 2, stop |-> 4]

\* C25 as stated: the same with the bounds read as NumPy reads integers,
\* where the upper bound -0 is the index 0, and the written slice having
\* local_dim - lowOffset - highOffset elements.
SlicesConformNumPy ==
  spc = "sliced" =>
    LET st == Prog(skern)[sstmt]
        sh == SShape(skern, sldim)
    IN  \A a \in DistAxes(skern) :
          /\ Count(SliceOf_Py(st.sel, soff, sh)[a]) =
               sldim[a] - soff[LowOff(skern, a)] - soff[HighOff(skern, a)]
          /\ \A n \in DOMAIN st.terms :
               Count(SliceOf_Py(st.terms[n].sel, soff, sh)[a]) =
                 Count(SliceOf_Py(st.sel, soff, sh)[a])

\* ------------------------------------------------------ exchange liveness
\* the steps of process p as far as its control position goes: each is a
\* step of p and nothing but p's position decides whether it is possible
ProcCtl(p) ==
  /\ p \in Ranks
  /\ \/ Enter(p)
     \/ PostCtl(p)
     \/ WaitallReturn(p)
     \/ ComputeCtl(p)

\* the library completes a receive of p whose message has arrived
LibCtl(p) == p \in Ranks /\ \E s \in Slots : DeliverCtl(p, s)

\* every process keeps running (fair scheduling), the library keeps
\* completing receives whose message has arrived (reliable delivery), and
\* the barrier opens once all have entered
SpecLive ==
  /\ Init
  /\ [][Next]_vars
  /\ \A p \in 0 .. MaxProcs - 1 : WF_<<pc, ip, t>>(ProcCtl(p))
  /\ \A p \in 0 .. MaxProcs - 1 : WF_req(LibCtl(p))
  /\ WF_pc(BarrierRelease)

\* some step is possible
CanStep == ENABLED (BarrierRelease \/ \E p \in Ranks : ProcCtl(p) \/ LibCtl(p))

\* every process has returned from the kernel after all its rounds
Returned ==
  \A p \in Ranks :
    pc[p] = "after" /\ t[p] = TSTEPS /\ waits[p] = TotalRounds /\ posts[p] = TotalRounds

\* all neighbors of p are the sentinel
Alone(p) == \A d \in Dirs(kernel) : nbr[p][d] = PROC_NULL

SameCall(i, j) ==
  /\ Prog(kernel)[i].op = Prog(kernel)[j].op
  /\ Prog(kernel)[i].op \in {"Isend", "Irecv"} =>
       /\ Prog(kernel)[i].tag = Prog(kernel)[j].tag
       /\ Prog(kernel)[i].peer = Prog(kernel)[j].peer
       /\ Prog(kernel)[i].buf = "A" /\ Prog(kernel)[j].buf = "B"

\* C27: No cross-round mismatch despite tag reuse. The round on A and the
\* round on B use the same tags towards the same neighbors, and with
\* messages of one sender, receiver and tag matched in the order sent, the
\* receive a process posts in its k-th round for a neighbor is matched with
\* the message that neighbor sent in its own k-th round, so data of A
\* never lands in a ghost layer of B or the reverse.
NoCrossRoundMatch ==
  /\ \A i \in 1 .. Len(Prog(kernel)) \div 2 :
       SameCall(i, i + Len(Prog(kernel)) \div 2)
  /\ \A x \in matched :
       /\ x.src = nbr[x.dst][x.side]
       /\ x.srnd = x.rrnd
       /\ x.sbuf = x.rbuf
       /\ x.rbuf = RoundBuf(x.rrnd)

\* witness of C27: a process has received on one tag from one neighbor in
\* round 1 into A and in round 2 into B
NoCrossRoundMatchWitness ==
  \E x, y \in matched :
    /\ x.dst = y.dst /\ x.src = y.src /\ x.tag = y.tag
    /\ x.rrnd = 1 /\ x.rbuf = "A" /\ x.sbuf = "A"
    /\ y.rrnd = 2 /\ y.rbuf = "B" /\ y.sbuf = "B"

\* C28: Bounded round skew. A process has completed the wait of exchange
\* round k only if every existing neighbor has posted the sends of its round
\* k, so the numbers of completed rounds of two grid-adjacent processes
\* differ by at most 1; the wait is no global barrier.
BoundedRoundSkew ==
  \A p \in Ranks : \A d \in Dirs(kernel) :
    nbr[p][d] # PROC_NULL =>
      /\ posts[nbr[p][d]] >= waits[p]
      /\ \A k \in 1 .. waits[p] :
           \E i \in 1 .. Len(posted[nbr[p][d]]) :
             posted[nbr[p][d]][i].rnd = k /\ posted[nbr[p][d]][i].dst = p
      /\ waits[p] - waits[nbr[p][d]] <= 1
      /\ waits[nbr[p][d]] - waits[p] <= 1

\* witness of C28: on a line of four processes the first has completed both
\* rounds, its neighbor one, and the third none
BoundedRoundSkewWitness ==
  /\ kernel = "jacobi_1d" /\ size = 4
  /\ waits[0] = 2 /\ waits[1] = 1 /\ waits[2] = 0
  /\ nbr[0]["ne"] = 1 /\ nbr[1]["ne"] = 2

\* --------------------------------------- collectives and blocking pairs
\* a statement of a driver and the ranks that execute it: "all", "root"
\* (if rank == 0), "others" (if rank > 0), "senders" (elif pi == 0; in
\* doitgen: else)
St(op, who) == [op |-> op, who |-> who, source |-> -1, out |-> 0]

SendersOf(d, n) ==
  {r \in 1 .. n - 1 : d = "doitgen" \/ InitCoord(d, n, r).pi = 0}

Who(w, d, n, r) ==
  CASE w = "all" -> TRUE
    [] w = "root" -> r = 0
    [] w = "others" -> r > 0
    [] w = "senders" -> r \in SendersOf(d, n)

\* the bound of rank 0's loop: range(Py), in doitgen range(size)
LoopBound(d, n) == IF d = "doitgen" THEN n ELSE PxPy(d, n)[2]

\* the tag of output number o for column coordinate (doitgen: rank) i
TagOf(d, n, i, o) == i + P2POutputs(d)[o].hi * PxPy(d, n)[2]

\* RecvLoop receiving the outputs of a source in reverse order
RecvLoop_OutputsSwapped(d, n) ==
  LET no == Len(P2POutputs(d))
  IN  [k \in 1 .. (LoopBound(d, n) - 1) * no |->
         [op |-> "Recv", who |-> "root", source |-> (k - 1) \div no + 1,
          out |-> no - ((k - 1) % no)]]

\* rank 0:  for i in range(Py): if i == pj: continue
\*          else: comm.Recv(.., source=i, tag=i); comm.Recv(.., tag=i+Py)
RecvLoop(d, n) ==
  LET no == Len(P2POutputs(d))
  IN  [k \in 1 .. (LoopBound(d, n) - 1) * no |->
         [op |-> "Recv", who |-> "root", source |-> (k - 1) \div no + 1,
          out |-> ((k - 1) % no) + 1]]

\* elif pi == 0:  comm.Send(.., dest=0, tag=pj); comm.Send(.., tag=pj+Py)
SendList(d) ==
  [o \in 1 .. Len(P2POutputs(d)) |->
     [op |-> "Send", who |-> "senders", source |-> -1, out |-> o]]

\* the comm.Gather calls of the validation block
GatherStmts(d) ==
  IF d \in {"gemver", "gemm", "k2mm", "k3mm"} THEN <<St("Gather", "all")>>
  ELSE IF d \in StencilKernels THEN <<St("Gather", "all"), St("Gather", "all")>>
  ELSE <<>>

\* ValidationStmts with the closing barrier inside  if rank == 0
ValidationStmts_RootBarrier(d, n) ==
  GatherStmts(d)
    \o (IF d \in P2PDrivers THEN RecvLoop(d, n) \o SendList(d) ELSE <<>>)
    \o (IF d \in StencilKernels THEN <<>> ELSE <<St("Barrier", "root")>>)

\* the first  if validate:  block of a driver
ValidationStmts(d, n) ==
  GatherStmts(d)
    \o (IF d \in P2PDrivers THEN RecvLoop(d, n) \o SendList(d) ELSE <<>>)
    \o (IF d \in StencilKernels THEN <<>> ELSE <<St("Barrier", "all")>>)

\* timeit.repeat(stmt, setup="comm.Barrier()", repeat=10, number=1)
TimedStmts == [k \in 1 .. repeat * number |-> St("Barrier", "all")]

\* SetupStmts with the library loaded before the first barrier
SetupStmts_LoadFirst ==
  <<St("compile", "root"), St("load", "others"), St("Barrier", "all"),
    St("Barrier", "all"), St("call", "all"), St("Barrier", "all")>>

\* if rank == 0: mpi_func = mpi_sdfg.compile();  comm.Barrier();
\* if rank > 0: mpi_func = CompiledSDFG(.., ReloadableDLL(..));
\* comm.Barrier();  mpi_func(..);  comm.Barrier()
SetupStmts ==
  <<St("compile", "root"), St("Barrier", "all"), St("load", "others"),
    St("Barrier", "all"), St("call", "all"), St("Barrier", "all")>>

\* the statements of a driver that order its processes, in program order:
\* compiling, loading and the first call with their barriers, the
\* validation block, the barriers of the timing loop; gemm ends at its
\* mpi_sdfg = None@dc.program
DriverStmts(d, v, n) ==
  IF d = "gemm" THEN <<St("raise", "all")>>
  ELSE SetupStmts
         \o (IF v THEN ValidationStmts(d, n) ELSE <<>>)
         \o TimedStmts

\* the statements rank r executes
RankProg(d, v, n, r) ==
  LET Mine(s) == Who(s.who, d, n, r)
  IN  SelectSeq(DriverStmts(d, v, n), Mine)

\* the runs of a driver: validate, number of processes, rank
Configs ==
  {c \in Drivers \X BOOLEAN \X (1 .. MaxProcs) \X (0 .. MaxProcs - 1) :
     c[3] \in Sizes(c[1]) /\ c[4] < c[3]}

ProgTable == [c \in Configs |-> RankProg(c[1], c[2], c[3], c[4])]

CProg(r) == ProgTable[<<cdrv, cval, csize, r>>]
CStmt(r) == CProg(r)[cpc[r]]
CanRun(r) == r \in 0 .. csize - 1 /\ cst[r] = "run" /\ cpc[r] <= Len(CProg(r))

CollStart ==
  \E d \in Drivers : \E v \in BOOLEAN : \E n \in Sizes(d) :
      /\ cdrv = d /\ cval = v /\ csize = n
      /\ cpc = [r \in 0 .. n - 1 |-> 1]
      /\ cst = [r \in 0 .. n - 1 |-> "run"]
      /\ ccoll = [r \in 0 .. n - 1 |-> <<>>]
      /\ cflight = {}
      /\ csent = [r \in 0 .. n - 1 |-> <<>>]
      /\ crecv = <<>> /\ cmatch = <<>>
      /\ cfunc = [r \in 0 .. n - 1 |-> "none"]

\* rank 0 compiles the kernel into the build directory, a rank > 0 loads
\* the library from it, or the first  mpi_func(..)  is called
CollLocal(r) ==
  /\ CanRun(r)
  /\ CStmt(r).op \in {"compile", "load", "call"}
  /\ cfunc' = [cfunc EXCEPT ![r] =
                 CASE CStmt(r).op = "compile" -> "compiled"
                   [] CStmt(r).op = "load" ->
                        IF cfunc[0] = "compiled" THEN "loaded" ELSE "missing"
                   [] OTHER -> @]
  /\ cpc' = [cpc EXCEPT ![r] = @ + 1]
  /\ UNCHANGED <<cdrv, cval, csize, cst, ccoll, cflight, csent, crecv, cmatch>>

\* gemm: TypeError
CollRaise(r) ==
  /\ CanRun(r)
  /\ CStmt(r).op = "raise"
  /\ cst' = [cst EXCEPT ![r] = "raised"]
  /\ UNCHANGED <<cdrv, cval, csize, cpc, ccoll, cflight, csent, crecv, cmatch, cfunc>>

\* comm.Barrier() or comm.Gather(..) is called
CollEnter(r) ==
  /\ CanRun(r)
  /\ CStmt(r).op \in {"Barrier", "Gather"}
  /\ ccoll' = [ccoll EXCEPT ![r] = Append(@, CStmt(r).op)]
  /\ cst' = [cst EXCEPT ![r] = "coll"]
  /\ UNCHANGED <<cdrv, cval, csize, cpc, cflight, csent, crecv, cmatch, cfunc>>

\* the collective returns: a barrier when every process has entered it, a
\* gather on rank 0 when every process has entered it, on the other ranks
\* at once
CollLeave(r) ==
  /\ r \in 0 .. csize - 1 /\ cst[r] = "coll"
  /\ LET j == Len(ccoll[r])
     IN  (CStmt(r).op = "Barrier" \/ r = 0) =>
           \A q \in 0 .. csize - 1 :
             Len(ccoll[q]) >= j /\ ccoll[q][j] = CStmt(r).op
  /\ cst' = [cst EXCEPT ![r] = "run"]
  /\ cpc' = [cpc EXCEPT ![r] = @ + 1]
  /\ UNCHANGED <<cdrv, cval, csize, ccoll, cflight, csent, crecv, cmatch, cfunc>>

\* comm.Send(.., dest=0, tag=..): the library either buffers the message
\* and returns at once, or blocks until rank 0 receives it
CollSend(r) ==
  /\ CanRun(r)
  /\ CStmt(r).op = "Send"
  /\ LET tag == TagOf(cdrv, csize, InitCoord(cdrv, csize, r).pj, CStmt(r).out)
     IN  /\ csent' = [csent EXCEPT ![r] = Append(@, tag)]
         /\ cflight' = cflight \cup
              {[src |-> r, tag |-> tag, ord |-> Len(csent[r]) + 1]}
  /\ \E m \in {"eager", "rendezvous"} :
       /\ IF m = "eager"
          THEN cpc' = [cpc EXCEPT ![r] = @ + 1] /\ UNCHANGED cst
          ELSE cst' = [cst EXCEPT ![r] = "send"] /\ UNCHANGED cpc
  /\ UNCHANGED <<cdrv, cval, csize, ccoll, crecv, cmatch, cfunc>>

\* rank 0:  comm.Recv(.., source=i, tag=..)  is called
CollRecv ==
  /\ CanRun(0)
  /\ CStmt(0).op = "Recv"
  /\ crecv' = Append(crecv, [source |-> CStmt(0).source,
                             tag |-> TagOf(cdrv, csize, CStmt(0).source, CStmt(0).out)])
  /\ cst' = [cst EXCEPT ![0] = "recv"]
  /\ UNCHANGED <<cdrv, cval, csize, cpc, ccoll, cflight, csent, cmatch, cfunc>>

\* the Recv returns with the oldest message of its source and tag; a sender
\* blocked in the Send of that message returns too
CollMatch ==
  /\ csize > 0 /\ cst[0] = "recv"
  /\ \E m \in cflight :
       /\ m.src = crecv[Len(crecv)].source /\ m.tag = crecv[Len(crecv)].tag
       /\ \A m2 \in cflight : (m2.src = m.src /\ m2.tag = m.tag) => m2.ord >= m.ord
       /\ cflight' = cflight \ {m}
       /\ cmatch' = Append(cmatch, m)
       /\ LET blocked == cst[m.src] = "send" /\ m.ord = Len(csent[m.src])
          IN  /\ cst' = [cst EXCEPT ![0] = "run",
                                    ![m.src] = IF blocked THEN "run" ELSE @]
              /\ cpc' = [cpc EXCEPT ![0] = @ + 1,
                                    ![m.src] = IF blocked THEN @ + 1 ELSE @]
  /\ UNCHANGED <<cdrv, cval, csize, ccoll, csent, crecv, cfunc>>

\* the driver returns
CollReturn(r) ==
  /\ r \in 0 .. csize - 1 /\ cst[r] = "run" /\ cpc[r] > Len(CProg(r))
  /\ cst' = [cst EXCEPT ![r] = "done"]
  /\ UNCHANGED <<cdrv, cval, csize, cpc, ccoll, cflight, csent, crecv, cmatch, cfunc>>

CollNext ==
  \/ \E r \in 0 .. csize - 1 :
       \/ CollLocal(r) \/ CollRaise(r) \/ CollEnter(r) \/ CollLeave(r)
       \/ CollSend(r) \/ CollReturn(r)
  \/ CollRecv
  \/ CollMatch

InitColl == CollStart /\ HaloIdle /\ DrvIdle /\ InitzIdle /\ GatherIdle /\ P2PIdle /\ RelerrIdle /\ RunIdle /\ TimingIdle /\ SlicesIdle /\ WcrIdle /\ LapackIdle
NextColl == CollNext /\ UNCHANGED <<hvars, dvars, ivars, gvars, qvars, evars, rvars, mvars, svars, wvars, lvars>>

\* while some process can take a step, some process takes one
SpecColl ==
  /\ InitColl
  /\ [][NextColl]_vars
  /\ WF_<<cpc, cst>>(CollNext)

IsPrefix(a, b) == Len(a) <= Len(b) /\ SubSeq(b, 1, Len(a)) = a

\* the collectives among the statements l
CollOps(l) ==
  LET IsColl(s) == s.op \in {"Barrier", "Gather"}
      c == SelectSeq(l, IsColl)
  IN  [k \in 1 .. Len(c) |-> c[k].op]

CollFinished == \A r \in 0 .. csize - 1 : cst[r] \in {"done", "raised"}

\* C29: Collective consistency. In every driver and for either value of
\* validate, no Barrier or Gather stands in a rank-dependent branch; the
\* collectives the processes have entered are at any time prefixes of one
\* sequence, a process that returns has entered exactly the collectives of
\* the driver in program order (the 10 barriers of the timing loop
\* included), and every process eventually returns or raises: none blocks
\* forever in a barrier or a gather.
CollectiveConsistency ==
  /\ [](\A k \in DOMAIN DriverStmts(cdrv, cval, csize) :
          DriverStmts(cdrv, cval, csize)[k].op \in {"Barrier", "Gather"}
            => DriverStmts(cdrv, cval, csize)[k].who = "all")
  /\ [](\A r, q \in 0 .. csize - 1 :
          IsPrefix(ccoll[r], ccoll[q]) \/ IsPrefix(ccoll[q], ccoll[r]))
  /\ [](\A r \in 0 .. csize - 1 :
          cst[r] = "done" =>
            /\ ccoll[r] = CollOps(DriverStmts(cdrv, cval, csize))
            /\ SubSeq(ccoll[r], Len(ccoll[r]) - repeat + 1, Len(ccoll[r]))
                 = [k \in 1 .. repeat |-> "Barrier"])
  /\ <>[]CollFinished

\* witness of C29: gemver with validation on four processes has returned
\* everywhere after 3 barriers, the gather, the barrier of the validation
\* block and the 10 barriers of the timing loop
CollectiveConsistencyWitness ==
  /\ cdrv = "gemver" /\ cval /\ csize = 4
  /\ \A r \in 0 .. csize - 1 : cst[r] = "done"
  /\ Len(ccoll[3]) = 15 /\ ccoll[3][4] = "Gather" /\ ccoll[3][5] = "Barrier"
  /\ ccoll[0] = ccoll[3]
  /\ Len(cmatch) = 2

\* the position, among the collectives of a driver run with validation, of
\* the barrier that follows the Send/Recv gather
FollowingBarrier == 3 + Len(GatherStmts(cdrv)) + 1
AtFollowingBarrier(r) == Len(ccoll[r]) >= FollowingBarrier

SentPairs ==
  UNION {{<<r, csent[r][i]>> : i \in 1 .. Len(csent[r])} : r \in 0 .. csize - 1}
RecvPairs == {<<crecv[k].source, crecv[k].tag>> : k \in 1 .. Len(crecv)}
SendCount ==
  Cardinality(UNION {{<<r, i>> : i \in 1 .. Len(csent[r])} : r \in 0 .. csize - 1})

\* C30: The point-to-point gather terminates and is exactly matched. In
\* atax, bicg, gemver, gesummv, mvt and doitgen run with validation,
\* whether a Send is buffered or blocks until its Recv is posted, every
\* process eventually reaches the barrier after the gather; once rank 0 has
\* reached it, the (source, tag) pairs of the Sends posted are exactly those
\* of the Recvs posted, one Send per Recv, no message is left unreceived
\* and no Recv unmatched; and at any time the messages received from one
\* sender were received in the order that sender posted them.
P2PGatherMatched ==
  /\ <>((cdrv \in P2PDrivers /\ cval) =>
          \A r \in 0 .. csize - 1 : AtFollowingBarrier(r))
  /\ []((cdrv \in P2PDrivers /\ cval /\ AtFollowingBarrier(0)) =>
          /\ cflight = {}
          /\ cst[0] # "recv"
          /\ Len(cmatch) = Len(crecv)
          /\ SentPairs = RecvPairs
          /\ SendCount = Len(crecv)
          /\ Cardinality(RecvPairs) = Len(crecv)
          /\ \A r \in 0 .. csize - 1 : cst[r] # "send")
  /\ [](\A i, j \in 1 .. Len(cmatch) :
          (i < j /\ cmatch[i].src = cmatch[j].src) => cmatch[i].ord < cmatch[j].ord)
  /\ [](\A k \in 1 .. Len(cmatch) :
          cmatch[k].src = crecv[k].source /\ cmatch[k].tag = crecv[k].tag)

\* witness of C30: bicg on four processes has returned; rank 1 sent its two
\* outputs with tags pj and pj + Py and rank 0 received them in that order
P2PGatherMatchedWitness ==
  /\ cdrv = "bicg" /\ cval /\ csize = 4
  /\ \A r \in 0 .. csize - 1 : cst[r] = "done"
  /\ csent[1] = <<1, 3>>
  /\ cmatch = <<[src |-> 1, tag |-> 1, ord |-> 1], [src |-> 1, tag |-> 3, ord |-> 2]>>

\* ------------------------------------------------ compile before load
\* rank r has executed a statement op of the driver
Executed(r, op) == \E i \in 1 .. cpc[r] - 1 : CProg(r)[i].op = op

\* C31: Compile-before-load ordering. In every driver, a process with
\* rank > 0 that has loaded the kernel library found it in the build
\* directory, because rank 0 had finished compiling it (rank 0 compiles
\* before the first barrier, the others load after it); and when a process
\* has invoked the kernel, every process has obtained its kernel function,
\* rank 0 by compiling and the others by loading.
CompileBeforeLoad ==
  /\ \A r \in 0 .. csize - 1 : cfunc[r] # "missing"
  /\ \A r \in 1 .. csize - 1 :
       Executed(r, "load") => (cfunc[0] = "compiled" /\ cfunc[r] = "loaded")
  /\ \A r \in 0 .. csize - 1 :
       Executed(r, "call") =>
         /\ cfunc[0] = "compiled"
         /\ \A q \in 1 .. csize - 1 : cfunc[q] = "loaded"

\* witness of C31: in heat_3d on four processes rank 3 has made the first
\* kernel call while rank 1, which has loaded the library, has not
CompileBeforeLoadWitness ==
  /\ cdrv = "heat_3d" /\ csize = 4
  /\ Executed(3, "call") /\ ~Executed(1, "call")
  /\ cfunc = [r \in 0 .. 3 |-> IF r = 0 THEN "compiled" ELSE "loaded"]

\* ------------------------------------------- the gather and the locals
\* C32: The validation gather leaves every process's local buffers
\* unchanged: a process that has left the Send/Recv gather, rank 0
\* included, holds in each local output buffer what it held when the gather
\* started.
GatherKeepsLocals ==
  \A r \in 0 .. qsize - 1 :
    qpc[r] \in {"barrier", "after"} => qloc[r] = qheld[r]

\* --------------------------------------------- the gathered snapshot
\* rank 0 has left the validation gather of the driver it runs
PastGather ==
  /\ rsize > 0
  /\ \E i \in 1 .. rpc[0] - 1 : Phases(RunCase(0))[i] = "gather"

\* C33: Snapshot isolation of the gathered result. From the moment rank 0
\* has left the validation gather until the driver returns, what rank 0
\* holds of every contributing rank is the content of that rank's buffers
\* after exactly one kernel call, and no step (none of the timed kernel
\* calls of any rank in particular) changes the gathered data, so the
\* comparison uses the data as they were when the gather finished.
SnapshotIsolation ==
  [][PastGather =>
       /\ rsnap' = rsnap
       /\ \A r \in RunContributors(RunCase(0).drv, rsize) :
            r \in DOMAIN rsnap /\ rsnap[r] = AfterCall(RunCase(0).drv, 0)]_vars

\* witness of C33: jacobi_1d on two processes, rank 0 at its comparison:
\* both ranks have made the first call and the 10 timed calls on their local
\* buffers, and the gathered data are those of the first call
SnapshotIsolationWitness ==
  /\ PastGather /\ rsize = 2 /\ RunCase(0).drv = "jacobi_1d"
  /\ Phase(0) = "validate" /\ rcase[1] = rcase[0]
  /\ rbuf = [r \in 0 .. 1 |-> repeat + 1]
  /\ rsnap = [r \in 0 .. 1 |-> 1]

\* ------------------------------------------------- neighbor symmetry
\* the neighbors rank q computes in the driver that runs
NbrOf(q) ==
  IF drv = "jacobi_1d" THEN Topo1D(q, dsize).nbr
  ELSE Topo2D(q, grid[dsize][1], grid[dsize][2]).nbr

\* C34: Neighbor symmetry. In a stencil driver, for the process p that runs
\* and every rank q of the grid: q is p's north neighbor exactly when p is
\* q's south neighbor, and likewise south/north, west/east and east/west;
\* p is not its own neighbor, and two directions of p name the same rank
\* only if both are MPI.PROC_NULL.
NeighborSymmetry ==
  (drv \in StencilKernels /\ dtopo # <<>>) =>
    /\ \A q \in 0 .. dsize - 1 : \A d \in DOMAIN dtopo.nbr :
         (dtopo.nbr[d] = q) <=> (NbrOf(q)[Opp(d)] = drank)
    /\ \A d \in DOMAIN dtopo.nbr : dtopo.nbr[d] # drank
    /\ \A d, e \in DOMAIN dtopo.nbr :
         (d # e /\ dtopo.nbr[d] = dtopo.nbr[e]) => dtopo.nbr[d] = PROC_NULL

\* witness of C34: rank 3 of the 2 x 2 grid of heat_3d has rank 1 to the
\* north and rank 2 to the west, which have it to the south and to the east
NeighborSymmetryWitness ==
  /\ drv = "heat_3d" /\ dsize = 4 /\ drank = 3 /\ dtopo # <<>>
  /\ dtopo.nbr = [nn |-> 1, ns |-> PROC_NULL, nw |-> 2, ne |-> PROC_NULL]
  /\ NbrOf(1).ns = 3 /\ NbrOf(2).ne = 3

\* ------------------------------------------- secondary block sizes
\* the grid dimension the symbol definitions relate a secondary block size
\* to:  M = lM * Px  # == lMy * Py,  N = lN * Py  # == lNx * Px,
\* NJ == lNJx * Px,  NK == lNKb * Px,  NM == lNMx * Px
SecondaryDim ==
  [lMy |-> dgrid[2], lNx |-> dgrid[1], lNJx |-> dgrid[1], lNKb |-> dgrid[1],
   lNMx |-> dgrid[1]]

\* C35: Secondary block sizes. In a dense driver that has computed its
\* local sizes from global sizes that Px and Py divide exactly, lMy * Py = M
\* and lNx * Px = N, and in gemm, k2mm and k3mm lNJx * Px = NJ,
\* lNKb * Px = NK and lNMx * Px = NM.
SecondarySizes ==
  (dloc # <<>> /\ drv \in GridDrivers
     /\ \A e \in SeqRange(dloc) : e.glob % dgrid[1] = 0 /\ e.glob % dgrid[2] = 0) =>
    \A e \in SeqRange(dloc) :
      e.name \in DOMAIN SecondaryDim => e.val * SecondaryDim[e.name] = e.glob

\* ------------------------------------------- max reduction with WCR
\* elements of BETA in the model (the test uses shape=[10])
BetaLen == 4
\* the inputs are the values 0 .. MaxBeta (np.random.rand is non-negative)
MaxBeta == 2

\* wcr = "lambda a, b: max(a, b)"
wcr(a, b) == IF a >= b THEN a ELSE b

RECURSIVE NpMax(_)
\* np.max(v)
NpMax(v) == IF Len(v) = 1 THEN v[1] ELSE wcr(v[1], NpMax(Tail(v)))

\* BETA = np.random.rand(10).astype(np.float32);  BETA_MAX = np.zeros(1)
WcrStart ==
  \E b \in [1 .. BetaLen -> 0 .. MaxBeta] :
    /\ BETA = b /\ wcrheld = b
    /\ BETA_MAX = 0
    /\ wcrpc = "start"
    /\ wcrtodo = {}

\* state "init": the mapped tasklet  val = 0  writes BETA_MAX[0]
WcrZeroInit ==
  /\ wcrpc = "start"
  /\ BETA_MAX' = 0
  /\ wcrtodo' = 1 .. BetaLen
  /\ wcrpc' = "compute"
  /\ UNCHANGED <<BETA, wcrheld>>

\* WcrCombine that stores the element without conflict resolution
WcrCombine_Store(i) ==
  /\ wcrpc = "compute" /\ i \in wcrtodo
  /\ BETA_MAX' = BETA[i]
  /\ wcrtodo' = wcrtodo \ {i}
  /\ UNCHANGED <<BETA, wcrpc, wcrheld>>

\* state "compute": the reduction combines one more element of BETA[0:10]
\* into BETA_MAX[0] with the conflict-resolution function
WcrCombine(i) ==
  /\ wcrpc = "compute" /\ i \in wcrtodo
  /\ BETA_MAX' = wcr(BETA_MAX, BETA[i])
  /\ wcrtodo' = wcrtodo \ {i}
  /\ UNCHANGED <<BETA, wcrpc, wcrheld>>

\* the SDFG returns;  assert(np.max(BETA) == BETA_MAX[0])  follows
WcrReturn ==
  /\ wcrpc = "compute" /\ wcrtodo = {}
  /\ wcrpc' = "done"
  /\ UNCHANGED <<BETA, BETA_MAX, wcrtodo, wcrheld>>

WcrNext ==
  \/ WcrZeroInit
  \/ \E i \in 1 .. BetaLen : WcrCombine(i)
  \/ WcrReturn

InitWcr == WcrStart /\ HaloIdle /\ DrvIdle /\ InitzIdle /\ GatherIdle /\ P2PIdle /\ RelerrIdle /\ RunIdle /\ TimingIdle /\ SlicesIdle /\ CollIdle /\ LapackIdle
NextWcr == WcrNext /\ UNCHANGED <<hvars, dvars, ivars, gvars, qvars, evars, rvars, mvars, svars, cvars, lvars>>
SpecWcr == InitWcr /\ [][NextWcr]_vars

\* C36: Max write-conflict-resolution reduction. When the test SDFG has
\* returned, BETA_MAX[0] equals the maximum element of BETA, for every
\* non-negative input and every order in which the elements were combined,
\* and BETA holds what it held at the call; during the reduction BETA_MAX[0]
\* is the maximum of 0 and the elements combined so far.
WcrMax ==
  /\ wcrpc = "done" => (BETA_MAX = NpMax(BETA) /\ BETA = wcrheld)
  /\ wcrpc = "compute" =>
       /\ \A i \in (1 .. BetaLen) \ wcrtodo : BETA_MAX >= BETA[i]
       /\ BETA_MAX = 0 \/ \E i \in (1 .. BetaLen) \ wcrtodo : BETA_MAX = BETA[i]

\* witness of C36: the run has returned with the maximum, which stands
\* first in BETA, after smaller elements were combined later
WcrMaxWitness ==
  /\ wcrpc = "done" /\ BETA_MAX = MaxBeta
  /\ BETA[1] = MaxBeta /\ BETA[BetaLen] = 1 /\ BETA[2] = 0

\* ------------------------------------------------ LAPACK type codes
\* the element types the helpers compare against, and other types
LapackTypes == {"float16", "float32", "float64", "complex64", "complex128"}
OtherTypes ==
  {"int8", "int16", "int32", "int64", "uint8", "uint16", "uint32", "uint64", "bool"}

\* the outcome of a call: the values returned, as a tuple (one letter, or
\* the three components), or the exception raised
Returned1(v) == [out |-> v, err |-> "none"]
Raised1(e) == [out |-> <<>>, err |-> e]

\* dtype.__name__ in the message of the TypeError: a type has a name, so
\* the lookup returns and does not raise AttributeError
TypeName(dtype) == Returned1(<<dtype>>)

\* raise TypeError('Type %s not supported in LAPACK operations' %
\*                 dtype.__name__)
Unsupported(dtype) ==
  IF TypeName(dtype).err = "none" THEN Raised1("TypeError")
  ELSE Raised1(TypeName(dtype).err)

\* to_lapacktype with the letters of the real types for the complex ones
to_lapacktype_ComplexAsReal(dtype) ==
  IF dtype = "float16" THEN Returned1(<<"H">>)
  ELSE IF dtype = "float32" THEN Returned1(<<"S">>)
  ELSE IF dtype = "float64" THEN Returned1(<<"D">>)
  ELSE IF dtype = "complex64" THEN Returned1(<<"S">>)
  ELSE IF dtype = "complex128" THEN Returned1(<<"D">>)
  ELSE Unsupported(dtype)

\* to_lapacktype(dtype), dtype a NumPy scalar type
to_lapacktype(dtype) ==
  IF dtype = "float16" THEN Returned1(<<"H">>)
  ELSE IF dtype = "float32" THEN Returned1(<<"S">>)
  ELSE IF dtype = "float64" THEN Returned1(<<"D">>)
  ELSE IF dtype = "complex64" THEN Returned1(<<"C">>)
  ELSE IF dtype = "complex128" THEN Returned1(<<"Z">>)
  ELSE Unsupported(dtype)

\* cuda_type_metadata(dtype), dtype a dace typeclass:
\* (LAPACK letter, CUDA C type, name in the dace runtime)
cuda_type_metadata(dtype) ==
  IF dtype = "float16" THEN Returned1(<<"H", "__half", "Half">>)
  ELSE IF dtype = "float32" THEN Returned1(<<"S", "float", "Float">>)
  ELSE IF dtype = "float64" THEN Returned1(<<"D", "double", "Double">>)
  ELSE IF dtype = "complex64" THEN Returned1(<<"C", "cuComplex", "Complex64">>)
  ELSE IF dtype = "complex128" THEN Returned1(<<"Z", "cuDoubleComplex", "Complex128">>)
  ELSE Unsupported(dtype)

\* two calls, each of either helper with any type
LapackStart ==
  /\ lpend \in [1 .. 2 -> [fn : {"to_lapacktype", "cuda_type_metadata"},
                           dtype : LapackTypes \cup OtherTypes]]
  /\ lcalls = <<>>

\* the next call is made and returns or raises
LapackCall ==
  /\ lpend # <<>>
  /\ LET c == Head(lpend)
         res == IF c.fn = "to_lapacktype" THEN to_lapacktype(c.dtype)
                ELSE cuda_type_metadata(c.dtype)
     IN  lcalls' = Append(lcalls, [fn |-> c.fn, dtype |-> c.dtype,
                                   out |-> res.out, err |-> res.err])
  /\ lpend' = Tail(lpend)

InitLapack == LapackStart /\ HaloIdle /\ DrvIdle /\ InitzIdle /\ GatherIdle /\ P2PIdle /\ RelerrIdle /\ RunIdle /\ TimingIdle /\ SlicesIdle /\ CollIdle /\ WcrIdle
NextLapack == LapackCall /\ UNCHANGED <<hvars, dvars, ivars, gvars, qvars, evars, rvars, mvars, svars, cvars, wvars>>
SpecLapack == InitLapack /\ [][NextLapack]_vars

\* the letter a call produced: the result of to_lapacktype, the first
\* component of the result of cuda_type_metadata
LetterOf(c) == c.out[1]

====
